---- MODULE Spec2Model ----
(***************************************************************************)
(* A model of cp437-tools: the SAUCE metadata record (Meta), its           *)
(* validators (meta::check and the per-field checks), the record locator   *)
(* and parser (read_raw, read), the serializer (write_meta), the           *)
(* CP437 <-> Unicode codec table, the colour schemes, the chunked reader   *)
(* (read_by_chunks, read_by_bytes), the rendering state machine            *)
(* (read_by_bytes_full), and the set-meta, remove-meta and to-txt tools.   *)
(*                                                                         *)
(* Strings are sequences of Unicode scalar values (naturals); byte strings *)
(* are sequences over 0..255.  A Rust Option is a sequence of length 0     *)
(* (None) or 1 (Some).                                                     *)
(***************************************************************************)
EXTENDS Integers, Sequences, FiniteSets, TLC

VARIABLES
    pc,      \* position of the running tool / harness
    meta,    \* Option<Meta>: the Meta value being checked, edited or written
    input,   \* the Input of process.rs: [size, meta], once the file is opened
    file,    \* bytes of the file on disk that is read
    key,     \* set-meta: the key argument
    value,   \* set-meta: the value argument
    out,     \* bytes the tool has written to its Output
    res,     \* result of the last operation (check results, a read_raw result, an ExitCode)
    readback,\* what meta::read returns on the bytes on disk
    index,   \* read_by_chunks: bytes of the content handed to the callback so far
    edits,   \* bytes of the file overwritten or cut off before it is read
    x,       \* read_by_bytes_full: cursor column
    y,       \* read_by_bytes_full: cursor row
    colour,  \* read_by_bytes_full: Colour { bg, fg, bright }
    control, \* read_by_bytes_full: bytes of the control sequence being read
    colours, \* read_by_bytes_full: the 16 colours of the scheme
    calls,   \* invocations of the rendering callback so far, in order
    scheme,  \* the name of the colour scheme given to the tool
    chunk    \* read_by_bytes: bytes of the current chunk not yet given to the callback

renderVars == <<x, y, colour, control, colours, calls, scheme, chunk>>
vars == <<pc, meta, input, file, key, value, out, res, readback, index, edits, x, y, colour, control,
          colours, calls, scheme, chunk>>

-----------------------------------------------------------------------------
(* Generic helpers *)

None == <<>>
Some(v) == <<v>>
IsSome(o) == Len(o) = 1
Unwrap(o) == o[1]

Min(a, b) == IF a < b THEN a ELSE b
Max(a, b) == IF a > b THEN a ELSE b

\* n copies of c
Repeat(c, n) == [i \in 1..n |-> c]

Bytes == 0..255

-----------------------------------------------------------------------------
(* libs/public/cp437.rs *)

CP437_TO_UTF8 == <<
    0, 9786, 9787, 9829, 9830, 9827, 9824, 8226, 9688, 9675, 10, 9794, 9792, 13, 9835, 9788,
    9658, 9668, 8597, 8252, 182, 167, 9644, 8616, 8593, 8595, 26, 27, 8735, 8596, 9650, 9660,
    32, 33, 34, 35, 36, 37, 38, 39, 40, 41, 42, 43, 44, 45, 46, 47,
    48, 49, 50, 51, 52, 53, 54, 55, 56, 57, 58, 59, 60, 61, 62, 63,
    64, 65, 66, 67, 68, 69, 70, 71, 72, 73, 74, 75, 76, 77, 78, 79,
    80, 81, 82, 83, 84, 85, 86, 87, 88, 89, 90, 91, 92, 93, 94, 95,
    96, 97, 98, 99, 100, 101, 102, 103, 104, 105, 106, 107, 108, 109, 110, 111,
    112, 113, 114, 115, 116, 117, 118, 119, 120, 121, 122, 123, 124, 125, 126, 8962,
    199, 252, 233, 226, 228, 224, 229, 231, 234, 235, 232, 239, 238, 236, 196, 197,
    201, 230, 198, 244, 246, 242, 251, 249, 255, 214, 220, 162, 163, 165, 8359, 402,
    225, 237, 243, 250, 241, 209, 170, 186, 191, 8976, 172, 189, 188, 161, 171, 187,
    9617, 9618, 9619, 9474, 9508, 9569, 9570, 9558, 9557, 9571, 9553, 9559, 9565, 9564, 9563, 9488,
    9492, 9524, 9516, 9500, 9472, 9532, 9566, 9567, 9562, 9556, 9577, 9574, 9568, 9552, 9580, 9575,
    9576, 9572, 9573, 9561, 9560, 9554, 9555, 9579, 9578, 9496, 9484, 9608, 9604, 9612, 9616, 9600,
    945, 223, 915, 960, 931, 963, 181, 964, 934, 920, 937, 948, 8734, 966, 949, 8745,
    8801, 177, 8805, 8804, 8992, 8993, 247, 8776, 176, 8729, 183, 8730, 8319, 178, 9632, 160
>>

\* to_utf8 with the byte 0x00 decoded as a blank (U+0020)
to_utf8_NulAsBlank(cp437) ==
    [i \in 1..Len(cp437) |-> IF cp437[i] = 0 THEN 32 ELSE CP437_TO_UTF8[cp437[i] + 1]]

\* to_utf8: every byte through the table
to_utf8(cp437) == [i \in 1..Len(cp437) |-> CP437_TO_UTF8[cp437[i] + 1]]

\* the characters of the table (CP437_TO_UTF8.contains)
CP437Chars == { CP437_TO_UTF8[i] : i \in 1..Len(CP437_TO_UTF8) }

\* UTF8_TO_CP437 is collected from the table in index order into an IndexMap:
\* a character listed twice would keep the byte of its last occurrence.
UTF8_TO_CP437 ==
    [c \in CP437Chars |->
        CHOOSE b \in Bytes :
            /\ CP437_TO_UTF8[b + 1] = c
            /\ \A b2 \in (b + 1)..255 : CP437_TO_UTF8[b2 + 1] # c]

\* to_cp437: Ok(bytes), or Err at the first character outside the table
to_cp437(utf8) ==
    IF \A i \in 1..Len(utf8) : utf8[i] \in DOMAIN UTF8_TO_CP437
    THEN [ok |-> TRUE, bytes |-> [i \in 1..Len(utf8) |-> UTF8_TO_CP437[utf8[i]]]]
    ELSE [ok |-> FALSE, bytes |-> <<>>]

-----------------------------------------------------------------------------
(* Rust string and integer primitives used by the code *)

\* number of UTF-8 bytes of one scalar value
Utf8Len(c) == IF c < 128 THEN 1 ELSE IF c < 2048 THEN 2 ELSE IF c < 65536 THEN 3 ELSE 4

RECURSIVE StrLen(_)
\* str::len(): the length in UTF-8 bytes, not in characters
StrLen(s) == IF s = <<>> THEN 0 ELSE Utf8Len(Head(s)) + StrLen(Tail(s))

\* format!("{:<n}") / format!("{:\0<n}"): pad on the right with fill up to n
\* characters; a longer string is left as it is
PadRight(s, n, fill) == IF Len(s) >= n THEN s ELSE s \o Repeat(fill, n - Len(s))

RECURSIVE TrimStartSet(_, _)
TrimStartSet(s, cs) ==
    IF s # <<>> /\ Head(s) \in cs THEN TrimStartSet(Tail(s), cs) ELSE s

RECURSIVE TrimEndSet(_, _)
TrimEndSet(s, cs) ==
    IF s # <<>> /\ s[Len(s)] \in cs THEN TrimEndSet(SubSeq(s, 1, Len(s) - 1), cs) ELSE s

\* str::trim_matches(c): strip c from both ends
trim_matches(s, c) == TrimEndSet(TrimStartSet(s, {c}), {c})

\* char::is_whitespace (the Unicode White_Space property)
WhiteSpace == (9..13) \cup {32, 133, 160, 5760} \cup (8192..8202) \cup {8232, 8233, 8239, 8287, 12288}

\* str::trim(): strip Unicode whitespace from both ends
trim(s) == TrimEndSet(TrimStartSet(s, WhiteSpace), WhiteSpace)

\* u16/u32::to_le_bytes
to_le_bytes(v, n) == [i \in 1..n |-> (v \div (256 ^ (i - 1))) % 256]

RECURSIVE from_le_bytes(_)
\* u16/u32::from_le_bytes
from_le_bytes(bs) == IF bs = <<>> THEN 0 ELSE Head(bs) + 256 * from_le_bytes(Tail(bs))

-----------------------------------------------------------------------------
(* libs/public/meta.rs: the Meta structure *)

IBM_VGA == <<73, 66, 77, 32, 86, 71, 65>>                       \* "IBM VGA"
IBM_VGA_437 == <<73, 66, 77, 32, 86, 71, 65, 32, 52, 51, 55>>   \* "IBM VGA 437"

\* impl Default for Meta
DefaultMeta ==
    [title |-> <<>>, author |-> <<>>, group |-> <<>>, date |-> <<>>, size |-> 0,
     type |-> <<1, 1>>, width |-> 80, height |-> 25, flags |-> 13,
     font |-> IBM_VGA, notes |-> <<>>]

\* Meta::flags(): (AR, LS, B)
MetaFlags(m) == <<(m.flags \div 8) % 4, (m.flags \div 2) % 4, m.flags % 2>>

\* aspect_ratio with the second branch on the aspect-ratio bits
aspect_ratio_ByAspectBits(m) ==
    IF MetaFlags(m)[1] = 2 THEN <<1, 1>>
    ELSE IF MetaFlags(m)[1] = 1 THEN <<5, 6>>
    ELSE <<20, 27>>

\* Meta::aspect_ratio
aspect_ratio(m) ==
    IF MetaFlags(m)[1] = 2 THEN <<1, 1>>
    ELSE IF MetaFlags(m)[2] = 1 THEN <<5, 6>>
    ELSE <<20, 27>>

\* Meta::font_width
font_width(m) == IF MetaFlags(m)[2] = 1 THEN 8 ELSE 9

-----------------------------------------------------------------------------
(* libs/public/meta.rs: the validators.  A result is Ok or an error that    *)
(* carries the message template, the field label and the formatted values. *)

Ok == [ok |-> TRUE, msg |-> "", name |-> "", label |-> <<>>, arg |-> <<>>]
Err(msg, name, label, arg) == [ok |-> FALSE, msg |-> msg, name |-> name, label |-> label, arg |-> arg]

ControlChars == {0, 10, 13, 26, 27}

check_char(char) ==
    IF char \in ControlChars THEN Err("is a control character", "", <<>>, <<char>>)
    ELSE IF char \notin CP437Chars
         THEN Err("is not a valid CP437 character", "", <<>>, <<char>>)
         ELSE Ok

\* check_str: the length test uses str::len(), then the first offending character
check_str(string, name, label, max_length) ==
    IF StrLen(string) > max_length
    THEN Err("is too long", name, label, <<max_length, StrLen(string)>>)
    ELSE IF \E i \in 1..Len(string) : ~check_char(string[i]).ok
         THEN LET i == CHOOSE j \in 1..Len(string) :
                           /\ ~check_char(string[j]).ok
                           /\ \A k \in 1..(j - 1) : check_char(string[k]).ok
              IN  Err("contains illegal characters", name, label,
                      <<IF string[i] \in ControlChars THEN 0 ELSE 1, string[i]>>)
         ELSE Ok

check_title(m) == IF IsSome(m) THEN check_str(Unwrap(m).title, "Title", <<>>, 35) ELSE Ok
check_author(m) == IF IsSome(m) THEN check_str(Unwrap(m).author, "Author", <<>>, 20) ELSE Ok
check_group(m) == IF IsSome(m) THEN check_str(Unwrap(m).group, "Group", <<>>, 20) ELSE Ok

IsDigit(c) == c \in 48..57
IsLeap(year) == (year % 4 = 0 /\ year % 100 # 0) \/ year % 400 = 0
DaysInMonth(year, mo) ==
    IF mo = 2 THEN (IF IsLeap(year) THEN 29 ELSE 28)
    ELSE IF mo \in {4, 6, 9, 11} THEN 30 ELSE 31

RECURSIVE DigitRun(_, _)
\* scan::number: how many of the first max characters of s are ASCII digits
DigitRun(s, max) ==
    IF s # <<>> /\ max > 0 /\ IsDigit(Head(s)) THEN 1 + DigitRun(Tail(s), max - 1) ELSE 0

RECURSIVE DigitsValue(_, _)
DigitsValue(ds, acc) ==
    IF ds = <<>> THEN acc ELSE DigitsValue(Tail(ds), 10 * acc + (Head(ds) - 48))

\* scan::number(s, 1, max): at least one and at most max digits, and the rest
ScanNumber(s, max) ==
    LET n == DigitRun(s, max)
    IN  [ok |-> n >= 1, val |-> DigitsValue(SubSeq(s, 1, n), 0), rest |-> SubSeq(s, n + 1, Len(s))]

\* chrono's parse of one numeric item: leading whitespace is skipped; a signed
\* item (the year) that starts with + or - takes every digit that follows,
\* any other item takes at most width digits
ParseNumeric(s, width, signed) ==
    LET t == TrimStartSet(s, WhiteSpace)
    IN  IF signed /\ t # <<>> /\ Head(t) = 45
        THEN LET n == ScanNumber(Tail(t), Len(t))
             IN  [ok |-> n.ok, val |-> 0 - n.val, rest |-> n.rest]
        ELSE IF signed /\ t # <<>> /\ Head(t) = 43
             THEN ScanNumber(Tail(t), Len(t))
             ELSE ScanNumber(t, width)

\* NaiveDate::parse_from_str(date, "%Y%m%d"): the items year (width 4, signed),
\* month and day (width 2), nothing left over, and a date of the proleptic
\* Gregorian calendar
NaiveDate_parse_from_str(date) ==
    LET year == ParseNumeric(date, 4, TRUE)
        mo == ParseNumeric(year.rest, 2, FALSE)
        dd == ParseNumeric(mo.rest, 2, FALSE)
    IN  /\ year.ok /\ mo.ok /\ dd.ok
        /\ dd.rest = <<>>
        /\ mo.val \in 1..12
        /\ dd.val >= 1 /\ dd.val <= DaysInMonth(year.val, mo.val)

check_date(m) ==
    IF IsSome(m) /\ Unwrap(m).date # <<>>
    THEN IF StrLen(Unwrap(m).date) # 8
         THEN Err("Date length is wrong", "", <<>>, <<StrLen(Unwrap(m).date)>>)
         ELSE IF ~NaiveDate_parse_from_str(Unwrap(m).date)
              THEN Err("Date format is wrong", "", <<>>, <<>>)
              ELSE Ok
    ELSE Ok

\* type_name: the name and the numbers it formats into it
type_name(type) ==
    LET major == type[1]
        minor == type[2]
    IN  IF major = 0 THEN [name |-> "None", nums |-> <<>>]
        ELSE IF major = 1 THEN
            IF minor = 0 THEN [name |-> "Character/ASCII", nums |-> <<>>]
            ELSE IF minor = 1 THEN [name |-> "Character/ANSi", nums |-> <<>>]
            ELSE IF minor = 2 THEN [name |-> "Character/ANSiMation", nums |-> <<>>]
            ELSE IF minor = 3 THEN [name |-> "Character/RIPScript", nums |-> <<>>]
            ELSE IF minor = 4 THEN [name |-> "Character/PCBoard", nums |-> <<>>]
            ELSE IF minor = 5 THEN [name |-> "Character/Avatar", nums |-> <<>>]
            ELSE IF minor = 6 THEN [name |-> "Character/HTML", nums |-> <<>>]
            ELSE IF minor = 7 THEN [name |-> "Character/Source", nums |-> <<>>]
            ELSE IF minor = 8 THEN [name |-> "Character/TundraDraw", nums |-> <<>>]
            ELSE [name |-> "Character/Unknown", nums |-> <<minor>>]
        ELSE IF major = 2 THEN [name |-> "Bitmap", nums |-> <<>>]
        ELSE IF major = 3 THEN [name |-> "Vector", nums |-> <<>>]
        ELSE IF major = 4 THEN [name |-> "Audio", nums |-> <<>>]
        ELSE IF major = 5 THEN [name |-> "BinaryText", nums |-> <<>>]
        ELSE IF major = 6 THEN [name |-> "XBin", nums |-> <<>>]
        ELSE IF major = 7 THEN [name |-> "Archive", nums |-> <<>>]
        ELSE IF major = 8 THEN [name |-> "Executable", nums |-> <<>>]
        ELSE [name |-> "Unknown/Unknown", nums |-> <<major, minor>>]

\* check_type with && where the code has ||: rejects only when both bytes are off
check_type_BothBytesOff(m) ==
    IF IsSome(m) /\ (Unwrap(m).type[1] \notin {0, 1} /\ Unwrap(m).type[2] \notin {0, 1})
    THEN Err("Type is unsupported", type_name(Unwrap(m).type).name, <<>>,
             type_name(Unwrap(m).type).nums)
    ELSE Ok

check_type(m) ==
    IF IsSome(m) /\ (Unwrap(m).type[1] \notin {0, 1} \/ Unwrap(m).type[2] \notin {0, 1})
    THEN Err("Type is unsupported", type_name(Unwrap(m).type).name, <<>>,
             type_name(Unwrap(m).type).nums)
    ELSE Ok

\* f & mask on a u8
BitAnd(f, mask) ==
    LET bit(v, i) == (v \div (2 ^ i)) % 2
    IN  bit(f, 0) * bit(mask, 0) + 2 * bit(f, 1) * bit(mask, 1)
        + 4 * bit(f, 2) * bit(mask, 2) + 8 * bit(f, 3) * bit(mask, 3)
        + 16 * bit(f, 4) * bit(mask, 4) + 32 * bit(f, 5) * bit(mask, 5)
        + 64 * bit(f, 6) * bit(mask, 6) + 128 * bit(f, 7) * bit(mask, 7)

\* check_flags without its last branch (flags > 0x1F)
check_flags_NoHighBits(m) ==
    IF IsSome(m)
    THEN IF BitAnd(Unwrap(m).flags, 1) = 0 THEN Err("Blink mode is unsupported", "", <<>>, <<>>)
         ELSE IF BitAnd(Unwrap(m).flags, 6) = 6 THEN Err("Invalid letter spacing", "", <<>>, <<>>)
         ELSE IF BitAnd(Unwrap(m).flags, 24) = 24 THEN Err("Invalid aspect ratio", "", <<>>, <<>>)
         ELSE Ok
    ELSE Ok

\* check_flags testing the aspect ratio before the letter spacing
check_flags_AspectFirst(m) ==
    IF IsSome(m)
    THEN IF BitAnd(Unwrap(m).flags, 1) = 0 THEN Err("Blink mode is unsupported", "", <<>>, <<>>)
         ELSE IF BitAnd(Unwrap(m).flags, 24) = 24 THEN Err("Invalid aspect ratio", "", <<>>, <<>>)
         ELSE IF BitAnd(Unwrap(m).flags, 6) = 6 THEN Err("Invalid letter spacing", "", <<>>, <<>>)
         ELSE IF Unwrap(m).flags > 31 THEN Err("Invalid flags", "", <<>>, <<>>)
         ELSE Ok
    ELSE Ok

check_flags(m) ==
    IF IsSome(m)
    THEN IF BitAnd(Unwrap(m).flags, 1) = 0 THEN Err("Blink mode is unsupported", "", <<>>, <<>>)
         ELSE IF BitAnd(Unwrap(m).flags, 6) = 6 THEN Err("Invalid letter spacing", "", <<>>, <<>>)
         ELSE IF BitAnd(Unwrap(m).flags, 24) = 24 THEN Err("Invalid aspect ratio", "", <<>>, <<>>)
         ELSE IF Unwrap(m).flags > 31 THEN Err("Invalid flags", "", <<>>, <<>>)
         ELSE Ok
    ELSE Ok

check_font(m) ==
    IF IsSome(m) /\ Unwrap(m).font \notin {IBM_VGA, IBM_VGA_437, <<>>}
    THEN Err("Font is unsupported", "", <<>>, Unwrap(m).font)
    ELSE Ok

\* the number of decimal digits of len
CeilLog10_DigitsOfLen(n) == IF n < 10 THEN 1 ELSE IF n < 100 THEN 2 ELSE 3

\* (len as f32).log10().ceil() as usize, for 1 <= len
RECURSIVE CeilLog10(_)
CeilLog10(n) == IF n <= 1 THEN 0 ELSE 1 + CeilLog10((n + 9) \div 10)

RECURSIVE Digits(_)
\* the decimal digits of n, as characters
Digits(n) == IF n < 10 THEN <<48 + n>> ELSE Digits(n \div 10) \o <<48 + (n % 10)>>

\* format!("{:0width$}", i)
ZeroPad(i, width) == Repeat(48, Max(0, width - Len(Digits(i)))) \o Digits(i)

\* check_note(meta, i), i counted from 0
check_note(m, i) ==
    IF IsSome(m)
    THEN check_str(Unwrap(m).notes[i + 1], "Notes",
                   ZeroPad(i, CeilLog10(Len(Unwrap(m).notes))), 64)
    ELSE Ok

check_notes(m) ==
    IF IsSome(m)
    THEN IF Len(Unwrap(m).notes) > 255
         THEN Err("Too many notes", "", <<>>, <<Len(Unwrap(m).notes)>>)
         ELSE IF \E i \in 0..(Len(Unwrap(m).notes) - 1) : ~check_note(m, i).ok
              THEN check_note(m, CHOOSE i \in 0..(Len(Unwrap(m).notes) - 1) :
                                     /\ ~check_note(m, i).ok
                                     /\ \A k \in 0..(i - 1) : check_note(m, k).ok)
              ELSE Ok
    ELSE Ok

\* the element of a sequence of results that `?` returns: the first error, else Ok
FirstErr(rs) ==
    IF \E i \in 1..Len(rs) : ~rs[i].ok
    THEN rs[CHOOSE i \in 1..Len(rs) : ~rs[i].ok /\ \A k \in 1..(i - 1) : rs[k].ok]
    ELSE Ok

\* check running check_flags before check_type
check_FlagsBeforeType(m) ==
    FirstErr(<<check_title(m), check_author(m), check_group(m), check_date(m),
               check_flags(m), check_type(m), check_font(m), check_notes(m)>>)

\* meta::check: the eight checks in order, stopping at the first failure
check(m) ==
    FirstErr(<<check_title(m), check_author(m), check_group(m), check_date(m),
               check_type(m), check_flags(m), check_font(m), check_notes(m)>>)

-----------------------------------------------------------------------------
(* libs/public/meta.rs: locating and parsing the record *)

SAUCE00 == <<83, 65, 85, 67, 69, 48, 48>>   \* "SAUCE00"
COMNT == <<67, 79, 77, 78, 84>>             \* "COMNT"

\* a[lo..hi] of Rust: 0-based, hi excluded
Slice(a, lo, hi) == SubSeq(a, lo + 1, hi)

\* Result<Option<T>, String>
ROk(v) == [err |-> FALSE, val |-> v]
RErr == [err |-> TRUE, val |-> None]

\* read_raw with the length test off by one (< 128)
read_raw_Min128(f) ==
    IF Len(f) < 128 THEN ROk(None)
    ELSE LET sauce == Slice(f, Len(f) - 128, Len(f))
         IN  IF Slice(sauce, 0, 7) # SAUCE00 THEN ROk(None)
             ELSE LET offset == sauce[104 + 1] * 64 + (IF sauce[104 + 1] > 0 THEN 134 ELSE 129)
                  IN  IF offset > Len(f) THEN RErr
                      ELSE LET raw == Slice(f, Len(f) - offset, Len(f))
                           IN  IF raw[0 + 1] # 26 \/ (offset > 129 /\ Slice(raw, 1, 6) # COMNT)
                               THEN ROk(None)
                               ELSE ROk(Some(raw))

\* read_raw: Ok(None), Ok(Some(raw)) or Err.  Seeking to a negative position
\* (offset larger than the file) makes File::seek fail, and the error is returned.
read_raw(f) ==
    IF Len(f) < 129 THEN ROk(None)
    ELSE LET sauce == Slice(f, Len(f) - 128, Len(f))
         IN  IF Slice(sauce, 0, 7) # SAUCE00 THEN ROk(None)
             ELSE LET offset == sauce[104 + 1] * 64 + (IF sauce[104 + 1] > 0 THEN 134 ELSE 129)
                  IN  IF offset > Len(f) THEN RErr
                      ELSE LET raw == Slice(f, Len(f) - offset, Len(f))
                           IN  IF raw[0 + 1] # 26 \/ (offset > 129 /\ Slice(raw, 1, 6) # COMNT)
                               THEN ROk(None)
                               ELSE ROk(Some(raw))

\* the closure of read() without .rev(): the notes come out last line first
ParseRaw_NoRev(raw) ==
    LET n == Len(raw)
        count == raw[n - 24 + 1]
    IN  [title  |-> trim_matches(to_utf8(Slice(raw, n - 121, n - 86)), 32),
         author |-> trim_matches(to_utf8(Slice(raw, n - 86, n - 66)), 32),
         group  |-> trim_matches(to_utf8(Slice(raw, n - 66, n - 46)), 32),
         date   |-> trim_matches(to_utf8(Slice(raw, n - 46, n - 38)), 32),
         size   |-> from_le_bytes(Slice(raw, n - 38, n - 34)),
         type   |-> <<raw[n - 34 + 1], raw[n - 33 + 1]>>,
         width  |-> from_le_bytes(Slice(raw, n - 32, n - 30)),
         height |-> from_le_bytes(Slice(raw, n - 30, n - 28)),
         flags  |-> raw[n - 23 + 1],
         font   |-> trim_matches(to_utf8(Slice(raw, n - 22, n)), 0),
         notes  |-> [j \in 1..count |->
                        LET i == j - 1
                            offset == n - (i + 3) * 64
                        IN  trim_matches(to_utf8(Slice(raw, offset, offset + 64)), 32)]]

\* the closure of read(): the fields of a raw record, at their offsets from its end
ParseRaw(raw) ==
    LET n == Len(raw)
        count == raw[n - 24 + 1]
    IN  [title  |-> trim_matches(to_utf8(Slice(raw, n - 121, n - 86)), 32),
         author |-> trim_matches(to_utf8(Slice(raw, n - 86, n - 66)), 32),
         group  |-> trim_matches(to_utf8(Slice(raw, n - 66, n - 46)), 32),
         date   |-> trim_matches(to_utf8(Slice(raw, n - 46, n - 38)), 32),
         size   |-> from_le_bytes(Slice(raw, n - 38, n - 34)),
         type   |-> <<raw[n - 34 + 1], raw[n - 33 + 1]>>,
         width  |-> from_le_bytes(Slice(raw, n - 32, n - 30)),
         height |-> from_le_bytes(Slice(raw, n - 30, n - 28)),
         flags  |-> raw[n - 23 + 1],
         font   |-> trim_matches(to_utf8(Slice(raw, n - 22, n)), 0),
         notes  |-> [j \in 1..count |->
                        LET i == count - j
                            offset == n - (i + 3) * 64
                        IN  trim_matches(to_utf8(Slice(raw, offset, offset + 64)), 32)]]

\* meta::read: Result<Option<Meta>, String>
read(f) ==
    LET maybe_raw == read_raw(f)
    IN  IF maybe_raw.err THEN RErr
        ELSE IF IsSome(maybe_raw.val) THEN ROk(Some(ParseRaw(Unwrap(maybe_raw.val))))
        ELSE ROk(None)

-----------------------------------------------------------------------------
(* bins/set-meta/main.rs: the serializer *)

\* one output.write(&to_cp437(text)?)? of write_meta
WText(text) == to_cp437(text)
\* one output.write(bytes)? of write_meta
WBytes(bs) == [ok |-> TRUE, bytes |-> bs]

RECURSIVE WriteAll(_)
\* the writes of a sequence of items up to the first one whose conversion fails
WriteAll(items) ==
    IF items = <<>> THEN [ok |-> TRUE, bytes |-> <<>>]
    ELSE IF ~Head(items).ok THEN [ok |-> FALSE, bytes |-> <<>>]
    ELSE LET rest == WriteAll(Tail(items))
         IN  [ok |-> rest.ok, bytes |-> Head(items).bytes \o rest.bytes]

\* write_meta with the flags byte written before the note count
write_meta_FlagsBeforeCount(m) ==
    WriteAll(
        <<WBytes(<<26>>)>>
        \o (IF m.notes # <<>>
            THEN <<WBytes(COMNT)>> \o [i \in 1..Len(m.notes) |-> WText(PadRight(m.notes[i], 64, 32))]
            ELSE <<>>)
        \o <<WBytes(SAUCE00),
             WText(PadRight(m.title, 35, 32)),
             WText(PadRight(m.author, 20, 32)),
             WText(PadRight(m.group, 20, 32)),
             WText(PadRight(m.date, 8, 32)),
             WBytes(to_le_bytes(m.size, 4)),
             WBytes(<<m.type[1], m.type[2]>>),
             WBytes(to_le_bytes(m.width, 2)),
             WBytes(to_le_bytes(m.height, 2)),
             WBytes(to_le_bytes(0, 4)),
             WBytes(<<m.flags>>),
             WBytes(<<Len(m.notes) % 256>>),
             WText(PadRight(m.font, 22, 0))>>)

\* write_meta: the bytes written to the output, and whether it returned OK
write_meta(m) ==
    WriteAll(
        <<WBytes(<<26>>)>>
        \o (IF m.notes # <<>>
            THEN <<WBytes(COMNT)>> \o [i \in 1..Len(m.notes) |-> WText(PadRight(m.notes[i], 64, 32))]
            ELSE <<>>)
        \o <<WBytes(SAUCE00),
             WText(PadRight(m.title, 35, 32)),
             WText(PadRight(m.author, 20, 32)),
             WText(PadRight(m.group, 20, 32)),
             WText(PadRight(m.date, 8, 32)),
             WBytes(to_le_bytes(m.size, 4)),
             WBytes(<<m.type[1], m.type[2]>>),
             WBytes(to_le_bytes(m.width, 2)),
             WBytes(to_le_bytes(m.height, 2)),
             WBytes(to_le_bytes(0, 4)),
             WBytes(<<Len(m.notes) % 256>>),
             WBytes(<<m.flags>>),
             WText(PadRight(m.font, 22, 0))>>)

-----------------------------------------------------------------------------
(* libs/internal/escape.rs *)

IsHex(c) == c \in (48..57) \cup (65..70) \cup (97..102)
HexVal(c) == IF c <= 57 THEN c - 48 ELSE IF c <= 70 THEN c - 55 ELSE c - 87

\* the number of hex digits, at most max, that s holds from position i on
RECURSIVE HexRun(_, _, _)
HexRun(s, i, max) ==
    IF max = 0 \/ i > Len(s) \/ ~IsHex(s[i]) THEN 0 ELSE 1 + HexRun(s, i + 1, max - 1)

RECURSIVE HexNum(_)
HexNum(ds) == IF ds = <<>> THEN 0 ELSE 16 * HexNum(SubSeq(ds, 1, Len(ds) - 1)) + HexVal(ds[Len(ds)])

\* char::from_u32: no surrogate, nothing above U+10FFFF
IsScalar(n) == n <= 1114111 /\ ~(n >= 55296 /\ n <= 57343)

RECURSIVE EscapeFrom(_, _)
\* the haystack from position i on, with every match of the regex replaced
EscapeFrom(s, i) ==
    IF i > Len(s) THEN [ok |-> TRUE, str |-> <<>>]
    ELSE LET next == IF i < Len(s) THEN s[i + 1] ELSE -1
             lit(c, n) == LET rest == EscapeFrom(s, i + n)
                          IN  [ok |-> rest.ok, str |-> IF rest.ok THEN <<c>> \o rest.str ELSE <<>>]
         IN  IF s[i] # 92 THEN lit(s[i], 1)
             ELSE IF next = 48 THEN lit(0, 2)
             ELSE IF next = 116 THEN lit(9, 2)
             ELSE IF next = 110 THEN lit(10, 2)
             ELSE IF next = 114 THEN lit(13, 2)
             ELSE IF next = 120 /\ HexRun(s, i + 2, 2) > 0
                  THEN lit(HexNum(SubSeq(s, i + 2, i + 1 + HexRun(s, i + 2, 2))),
                           2 + HexRun(s, i + 2, 2))
             ELSE IF next = 117 /\ HexRun(s, i + 2, 6) > 0
                  THEN IF IsScalar(HexNum(SubSeq(s, i + 2, i + 1 + HexRun(s, i + 2, 6))))
                       THEN lit(HexNum(SubSeq(s, i + 2, i + 1 + HexRun(s, i + 2, 6))),
                                2 + HexRun(s, i + 2, 6))
                       ELSE [ok |-> FALSE, str |-> <<>>]
             ELSE IF next = 92 THEN lit(92, 2)
             ELSE lit(92, 1)

\* escape: Ok(the unescaped string), or Err("Invalid unicode: ...")
escape(haystack) == EscapeFrom(haystack, 1)

-----------------------------------------------------------------------------
(* libs/internal/exit.rs *)

OK == [code |-> "OK", msg |-> ""]
FAIL(msg) == [code |-> "FAIL", msg |-> msg]
USAGE(msg) == [code |-> "USAGE", msg |-> msg]
ERROR(msg) == [code |-> "ERROR", msg |-> msg]

-----------------------------------------------------------------------------
(* bins/set-meta/main.rs: set_meta *)

\* char::to_digit(radix), -1 when the character is no digit of the radix
ToDigit(c, radix) ==
    LET d == IF c \in 48..57 THEN c - 48
             ELSE IF c \in 65..90 THEN c - 55
             ELSE IF c \in 97..122 THEN c - 87
             ELSE radix
    IN  IF d < radix THEN d ELSE -1

RECURSIVE ParseDigits(_, _, _, _)
\* the digits of ds accumulated onto acc; -1 on a character that is no digit or
\* on a value above max
ParseDigits(ds, radix, max, acc) ==
    IF ds = <<>> THEN acc
    ELSE IF ToDigit(Head(ds), radix) < 0 THEN -1
    ELSE IF acc * radix + ToDigit(Head(ds), radix) > max THEN -1
    ELSE ParseDigits(Tail(ds), radix, max, acc * radix + ToDigit(Head(ds), radix))

\* str::parse::<uN>() and uN::from_str_radix: an optional '+', then one digit or
\* more; -1 stands for the ParseIntError
ParseUInt(s, radix, max) ==
    IF s = <<>> THEN -1
    ELSE IF Head(s) \in {43, 45} /\ Len(s) = 1 THEN -1
    ELSE IF Head(s) = 43 THEN ParseDigits(Tail(s), radix, max, 0)
    ELSE ParseDigits(s, radix, max, 0)

\* str::to_lowercase on the ASCII letters; no other character lowercases to a
\* string that equals one of the three type names
to_lowercase(s) == [i \in 1..Len(s) |-> IF s[i] \in 65..90 THEN s[i] + 32 ELSE s[i]]

RECURSIVE Split(_, _)
\* str::split(c)
Split(s, c) ==
    IF \E i \in 1..Len(s) : s[i] = c
    THEN LET i == CHOOSE j \in 1..Len(s) : s[j] = c /\ \A k \in 1..(j - 1) : s[k] # c
         IN  <<SubSeq(s, 1, i - 1)>> \o Split(SubSeq(s, i + 1, Len(s)), c)
    ELSE <<s>>

\* Iterator::filter
RECURSIVE FilterNonEmpty(_)
FilterNonEmpty(ss) ==
    IF ss = <<>> THEN <<>>
    ELSE IF Head(ss) = <<>> THEN FilterNonEmpty(Tail(ss))
    ELSE <<Head(ss)>> \o FilterNonEmpty(Tail(ss))

StartsWith(s, p) == Len(s) >= Len(p) /\ SubSeq(s, 1, Len(p)) = p
StripPrefix(s, p) == SubSeq(s, Len(p) + 1, Len(s))

NONE_NAME == <<110, 111, 110, 101>>                                              \* "none"
ASCII_NAME == <<99, 104, 97, 114, 97, 99, 116, 101, 114, 47, 97, 115, 99, 105, 105>>   \* "character/ascii"
ANSI_NAME == <<99, 104, 97, 114, 97, 99, 116, 101, 114, 47, 97, 110, 115, 105>>        \* "character/ansi"

\* what set_meta returns and the Meta it leaves behind
SetOk(m) == [code |-> OK, meta |-> m]
SetErr(msg, m) == [code |-> USAGE(msg), meta |-> m]

\* a "size" arm that parses the value and stores it
set_meta_size_Stored(m, v) ==
    IF ParseUInt(v, 10, 2147483647) < 0 THEN SetErr("Invalid size", m)
    ELSE SetOk([m EXCEPT !.size = ParseUInt(v, 10, 2147483647)])

\* the "size" arm of set_meta
set_meta_size(m, v) == SetErr("Size can't be changed", m)

\* the "flags" arm of set_meta
set_meta_flags(m, v) ==
    LET n == IF StartsWith(v, <<48, 120>>) THEN ParseUInt(StripPrefix(v, <<48, 120>>), 16, 255)
             ELSE IF StartsWith(v, <<48, 98>>) THEN ParseUInt(StripPrefix(v, <<48, 98>>), 2, 255)
             ELSE ParseUInt(v, 10, 255)
    IN  IF n < 0 THEN SetErr("Invalid flags", m) ELSE SetOk([m EXCEPT !.flags = n])

set_meta(m, k, v) ==
    CASE k = "title" -> SetOk([m EXCEPT !.title = trim(v)])
      [] k = "author" -> SetOk([m EXCEPT !.author = trim(v)])
      [] k = "group" -> SetOk([m EXCEPT !.group = trim(v)])
      [] k = "date" -> SetOk([m EXCEPT !.date = trim(v)])
      [] k = "size" -> set_meta_size(m, v)
      [] k = "type" ->
            IF to_lowercase(v) = NONE_NAME THEN SetOk([m EXCEPT !.type = <<0, 0>>])
            ELSE IF to_lowercase(v) = ASCII_NAME THEN SetOk([m EXCEPT !.type = <<1, 0>>])
            ELSE IF to_lowercase(v) = ANSI_NAME THEN SetOk([m EXCEPT !.type = <<1, 1>>])
            ELSE SetErr("Type is unsupported", m)
      [] k = "width" ->
            IF ParseUInt(v, 10, 65535) < 0 THEN SetErr("Invalid width", m)
            ELSE SetOk([m EXCEPT !.width = ParseUInt(v, 10, 65535)])
      [] k = "height" ->
            IF ParseUInt(v, 10, 65535) < 0 THEN SetErr("Invalid height", m)
            ELSE SetOk([m EXCEPT !.height = ParseUInt(v, 10, 65535)])
      [] k = "flags" -> set_meta_flags(m, v)
      [] k = "font" ->
            IF v \in {<<>>, IBM_VGA, IBM_VGA_437} THEN SetOk([m EXCEPT !.font = trim(v)])
            ELSE SetErr("Font is unsupported", m)
      [] k = "notes" ->
            IF v # <<>>
            THEN LET lines == Split(v, 10)
                 IN  SetOk([m EXCEPT !.notes =
                               FilterNonEmpty([i \in 1..Len(lines) |-> trim(lines[i])])])
            ELSE SetOk([m EXCEPT !.notes = <<>>])
      [] OTHER -> SetErr("Unknown key", m)

-----------------------------------------------------------------------------
(* libs/public/colour.rs: the colour schemes.  A ColourScheme is a record   *)
(* of its variant and, for CUSTOM, its sixteen colours.                     *)

CLASSIC_COLOURS ==
    << <<0, 0, 0>>, <<171, 0, 0>>, <<0, 171, 0>>, <<171, 87, 0>>,
       <<0, 0, 171>>, <<171, 0, 171>>, <<0, 171, 171>>, <<171, 171, 171>>,
       <<87, 87, 87>>, <<255, 87, 87>>, <<87, 255, 87>>, <<255, 255, 87>>,
       <<87, 87, 255>>, <<255, 87, 255>>, <<87, 255, 255>>, <<255, 255, 255>> >>

MODERN_COLOURS ==
    << <<10, 10, 10>>, <<153, 77, 77>>, <<140, 153, 77>>, <<204, 153, 102>>,
       <<77, 102, 153>>, <<179, 89, 134>>, <<77, 153, 153>>, <<153, 153, 153>>,
       <<77, 77, 77>>, <<204, 122, 122>>, <<190, 204, 122>>, <<255, 204, 153>>,
       <<122, 150, 204>>, <<230, 138, 184>>, <<122, 204, 204>>, <<230, 230, 230>> >>

CATPPUCCIN_COLOURS ==
    << <<35, 38, 52>>, <<219, 99, 99>>, <<130, 189, 100>>, <<212, 170, 104>>,
       <<108, 138, 230>>, <<230, 147, 205>>, <<78, 181, 171>>, <<165, 173, 206>>,
       <<81, 87, 109>>, <<231, 130, 132>>, <<166, 209, 137>>, <<229, 200, 144>>,
       <<140, 170, 238>>, <<244, 184, 228>>, <<129, 200, 190>>, <<198, 208, 245>> >>

DRACULA_COLOURS ==
    << <<33, 34, 44>>, <<255, 85, 85>>, <<80, 250, 123>>, <<241, 250, 140>>,
       <<189, 147, 249>>, <<255, 121, 198>>, <<139, 233, 253>>, <<248, 248, 242>>,
       <<98, 114, 164>>, <<255, 110, 110>>, <<105, 255, 148>>, <<255, 255, 165>>,
       <<214, 172, 255>>, <<255, 146, 223>>, <<164, 255, 255>>, <<255, 255, 255>> >>

ROSEPINE_COLOURS ==
    << <<25, 23, 36>>, <<180, 82, 110>>, <<139, 149, 77>>, <<196, 150, 86>>,
       <<49, 116, 143>>, <<144, 122, 169>>, <<86, 148, 159>>, <<144, 140, 170>>,
       <<64, 61, 82>>, <<235, 111, 146>>, <<183, 196, 106>>, <<246, 193, 119>>,
       <<62, 143, 176>>, <<196, 167, 231>>, <<156, 207, 216>>, <<224, 222, 244>> >>

Preset(name) == [variant |-> name, custom |-> <<>>]
CUSTOM(c) == [variant |-> "CUSTOM", custom |-> c]

PresetNames ==
    << <<"CLASSIC", <<67, 76, 65, 83, 83, 73, 67>>>>,
       <<"MODERN", <<77, 79, 68, 69, 82, 78>>>>,
       <<"CATPPUCCIN", <<67, 65, 84, 80, 80, 85, 67, 67, 73, 78>>>>,
       <<"DRACULA", <<68, 82, 65, 67, 85, 76, 65>>>>,
       <<"ROSEPINE", <<82, 79, 83, 69, 80, 73, 78, 69>>>> >>

\* ColourScheme::colours
ColourScheme_colours(self) ==
    CASE self.variant = "CLASSIC" -> CLASSIC_COLOURS
      [] self.variant = "MODERN" -> MODERN_COLOURS
      [] self.variant = "CATPPUCCIN" -> CATPPUCCIN_COLOURS
      [] self.variant = "DRACULA" -> DRACULA_COLOURS
      [] self.variant = "ROSEPINE" -> ROSEPINE_COLOURS
      [] OTHER -> self.custom

\* format!("{:02x}") of one hex digit
HexDigitLower(d) == IF d < 10 THEN 48 + d ELSE 87 + d

\* format!("#{:02x}{:02x}{:02x}", colour[0], colour[1], colour[2])
ColourCode(c) ==
    <<35, HexDigitLower(c[1] \div 16), HexDigitLower(c[1] % 16),
          HexDigitLower(c[2] \div 16), HexDigitLower(c[2] % 16),
          HexDigitLower(c[3] \div 16), HexDigitLower(c[3] % 16)>>

RECURSIVE JoinCodes(_)
\* the codes of the colours joined with commas (the fold of name)
JoinCodes(cs) ==
    IF cs = <<>> THEN <<>>
    ELSE IF Len(cs) = 1 THEN ColourCode(cs[1])
    ELSE ColourCode(Head(cs)) \o <<44>> \o JoinCodes(Tail(cs))

CUSTOM_PREFIX == <<67, 85, 83, 84, 79, 77, 40>>   \* "CUSTOM("

\* ColourScheme::name
ColourScheme_name(self) ==
    IF self.variant = "CUSTOM"
    THEN CUSTOM_PREFIX \o JoinCodes(self.custom) \o <<41>>
    ELSE LET i == CHOOSE j \in 1..Len(PresetNames) : PresetNames[j][1] = self.variant
         IN  PresetNames[i][2]

\* to_uppercase leaving every character as it is
to_uppercase_Unchanged(s) == s

\* the uppercase of one character that is a single character
UpperChar(c) ==
    IF c \in 97..122 THEN c - 32
    ELSE IF c = 305 THEN 73
    ELSE IF c = 383 THEN 83
    ELSE c

RECURSIVE to_uppercase(_)
\* str::to_uppercase: the ASCII letters, and the three characters outside ASCII
\* whose uppercase is made of ASCII letters (U+00DF -> "SS", U+0131 -> "I",
\* U+017F -> "S"); other characters cannot produce a scheme name
to_uppercase(s) ==
    IF \E i \in 1..Len(s) : s[i] = 223
    THEN LET i == CHOOSE j \in 1..Len(s) : s[j] = 223 /\ \A k \in 1..(j - 1) : s[k] # 223
         IN  [k \in 1..(i - 1) |-> UpperChar(s[k])] \o <<83, 83>>
             \o to_uppercase(SubSeq(s, i + 1, Len(s)))
    ELSE [k \in 1..Len(s) |-> UpperChar(s[k])]

IsUpperHex(c) == c \in (48..57) \cup (65..70)

\* the regex ^CUSTOM\(((?:#[0-9A-F]{6},){15}#[0-9A-F]{6})\)$
MatchesCustom(s) ==
    /\ Len(s) = 7 + 16 * 8
    /\ SubSeq(s, 1, 7) = CUSTOM_PREFIX
    /\ \A k \in 0..15 :
          /\ s[8 + 8 * k] = 35
          /\ \A j \in 1..6 : IsUpperHex(s[8 + 8 * k + j])
          /\ s[8 + 8 * k + 7] = (IF k = 15 THEN 41 ELSE 44)

\* parse_hex: u8::from_str_radix(hex, 16)
parse_hex(hex) == ParseUInt(hex, 16, 255)

SchemeOk(v) == [ok |-> TRUE, val |-> v, msg |-> "", arg |-> <<>>]
SchemeErr(msg, name) == [ok |-> FALSE, val |-> Preset("CLASSIC"), msg |-> msg, arg |-> name]

\* ColourScheme::get
ColourScheme_get(name) ==
    LET uppercase_name == to_uppercase(name)
    IN  IF \E i \in 1..Len(PresetNames) : PresetNames[i][2] = uppercase_name
        THEN LET i == CHOOSE j \in 1..Len(PresetNames) : PresetNames[j][2] = uppercase_name
             IN  SchemeOk(Preset(PresetNames[i][1]))
        ELSE IF StartsWith(uppercase_name, CUSTOM_PREFIX)
        THEN IF MatchesCustom(uppercase_name)
             THEN LET c == SubSeq(uppercase_name, 8, Len(uppercase_name) - 1)
                      \* the capture group; entry k starts at c[8k], a '#'
                      entry(k) == <<parse_hex(SubSeq(c, 8 * k + 2, 8 * k + 3)),
                                    parse_hex(SubSeq(c, 8 * k + 4, 8 * k + 5)),
                                    parse_hex(SubSeq(c, 8 * k + 6, 8 * k + 7))>>
                  IN  SchemeOk(CUSTOM([k \in 1..16 |-> entry(k - 1)]))
             ELSE SchemeErr("Unparseable colour scheme", name)
        ELSE SchemeErr("Unknown scheme", name)

-----------------------------------------------------------------------------
(* libs/internal/process.rs: read_by_bytes_full, the rendering state        *)
(* machine.  The closure handles one byte: it returns Ok, returns an error  *)
(* (the ? operator) or panics (a slice or index out of range, an overflow   *)
(* in a build with overflow checks).                                        *)

U16 == 65536

\* Meta::width, Meta::height
MetaWidth(m) == IF m.width > 0 THEN m.width ELSE DefaultMeta.width
MetaHeight(m) == IF m.height > 0 THEN m.height ELSE DefaultMeta.height

\* String::from_utf8(bytes)?.parse::<uN>()?: -1 stands for either error
ParseBytes(bytes, max) ==
    IF \E i \in 1..Len(bytes) : bytes[i] >= 128 THEN -1 ELSE ParseUInt(bytes, 10, max)

\* usize::MAX on a 64-bit target, in decimal digits: 18446744073709551615
USIZE_MAX == <<49, 56, 52, 52, 54, 55, 52, 52, 48, 55, 51, 55, 48, 57, 53, 53, 49, 54, 49, 53>>

\* two digit strings of the same length: a <= b as numbers
DigitsLeq(a, b) ==
    \/ a = b
    \/ \E i \in 1..Len(a) : a[i] < b[i] /\ \A j \in 1..(i - 1) : a[j] = b[j]

\* String::from_utf8(bytes)?.parse::<usize>()?: -1 stands for either error.  A
\* number of ten digits or more that fits a usize is returned as 10^9: the
\* closure compares it with the SGR codes only, all of which are below 108
ParseUsize(bytes) ==
    LET s == IF bytes # <<>> /\ Head(bytes) = 43 THEN Tail(bytes) ELSE bytes
        sig == TrimStartSet(s, {48})
    IN  IF s = <<>> \/ \E i \in 1..Len(s) : ~IsDigit(s[i]) THEN -1
        ELSE IF Len(sig) <= 9 THEN ParseUInt(s, 10, 999999999)
        ELSE IF Len(sig) < Len(USIZE_MAX) THEN 1000000000
        ELSE IF Len(sig) = Len(USIZE_MAX) /\ DigitsLeq(sig, USIZE_MAX) THEN 1000000000
        ELSE -1

\* SgrParam with the foreground taken from the dark colours whatever bright is
SgrParam_DarkForeground(c, cols, num) ==
    IF num = 0 THEN [bg |-> cols[1], fg |-> cols[16], bright |-> FALSE]
    ELSE IF num = 1 THEN [c EXCEPT !.bright = TRUE]
    ELSE IF num \in 30..37 THEN [c EXCEPT !.fg = cols[num - 30 + 1]]
    ELSE IF num = 39 THEN [c EXCEPT !.fg = cols[16]]
    ELSE IF num \in 40..47 THEN [c EXCEPT !.bg = cols[num - 40 + 1]]
    ELSE IF num = 49 THEN [c EXCEPT !.bg = cols[1]]
    ELSE IF num \in 90..97 THEN [c EXCEPT !.fg = cols[num - 82 + 1]]
    ELSE IF num \in 100..107 THEN [c EXCEPT !.bg = cols[num - 92 + 1]]
    ELSE c

\* SgrParam with a code 0 that resets the two colours and keeps the bright flag
SgrParam_ResetKeepsBright(c, cols, num) ==
    IF num = 0 THEN [bg |-> cols[1], fg |-> cols[16], bright |-> c.bright]
    ELSE IF num = 1 THEN [c EXCEPT !.bright = TRUE]
    ELSE IF num \in 30..37 THEN [c EXCEPT !.fg = cols[num - 30 + (IF c.bright THEN 8 ELSE 0) + 1]]
    ELSE IF num = 39 THEN [c EXCEPT !.fg = cols[16]]
    ELSE IF num \in 40..47 THEN [c EXCEPT !.bg = cols[num - 40 + 1]]
    ELSE IF num = 49 THEN [c EXCEPT !.bg = cols[1]]
    ELSE IF num \in 90..97 THEN [c EXCEPT !.fg = cols[num - 82 + 1]]
    ELSE IF num \in 100..107 THEN [c EXCEPT !.bg = cols[num - 92 + 1]]
    ELSE c

\* one SGR parameter applied to the colour
SgrParam(c, cols, num) ==
    IF num = 0 THEN [bg |-> cols[1], fg |-> cols[16], bright |-> FALSE]
    ELSE IF num = 1 THEN [c EXCEPT !.bright = TRUE]
    ELSE IF num \in 30..37 THEN [c EXCEPT !.fg = cols[num - 30 + (IF c.bright THEN 8 ELSE 0) + 1]]
    ELSE IF num = 39 THEN [c EXCEPT !.fg = cols[16]]
    ELSE IF num \in 40..47 THEN [c EXCEPT !.bg = cols[num - 40 + 1]]
    ELSE IF num = 49 THEN [c EXCEPT !.bg = cols[1]]
    ELSE IF num \in 90..97 THEN [c EXCEPT !.fg = cols[num - 82 + 1]]
    ELSE IF num \in 100..107 THEN [c EXCEPT !.bg = cols[num - 92 + 1]]
    ELSE c

RECURSIVE SgrParams(_, _, _)
\* the loop over the parameters of an SGR sequence: the colour after them, or
\* the error of the first parameter that does not parse
SgrParams(c, cols, nums) ==
    IF nums = <<>> THEN [ok |-> TRUE, colour |-> c]
    ELSE LET num == ParseUsize(IF Head(nums) = <<>> THEN <<48>> ELSE Head(nums))
         IN  IF num < 0 THEN [ok |-> FALSE, colour |-> c]
             ELSE SgrParams(SgrParam(c, cols, num), cols, Tail(nums))

\* the cursor moved forward without the clamp to the last column
CursorForward_NoClamp(sum, width) == sum

\* x = min(x + n, meta.width() - 1), the sum already reduced to a u16
CursorForward(sum, width) == Min(sum, width - 1)

\* an accumulator that holds the last byte only
Push_LastOnly(ctl, byte) == <<byte>>

\* control.push(byte)
Push(ctl, byte) == Append(ctl, byte)

\* the cursor moved one column on, without the wrap at the right margin
Advance_NoWrap(cx, cy, width) == <<cx + 1, cy>>

\* x += 1; if x >= meta.width() { (x, y) = (0, y + 1) }
Advance(cx, cy, width) == IF cx + 1 >= width THEN <<0, cy + 1>> ELSE <<cx + 1, cy>>

\* what the closure does with one byte: the status ("ok", "err" for a returned
\* error, "panic", "overflow" for a u16 addition that overflows) and the state
\* it leaves
Closure(byte, m, cols, st) ==
    LET keep == [status |-> "ok", x |-> st.x, y |-> st.y, colour |-> st.colour,
                 control |-> st.control, call |-> <<>>]
        args == SubSeq(st.control, 3, Len(st.control))
    IN  IF st.y >= MetaHeight(m) THEN keep
        ELSE IF st.control # <<>>
        THEN IF byte = 109      \* m
             THEN IF Len(st.control) < 2 THEN [keep EXCEPT !.status = "panic"]
                  ELSE LET r == SgrParams(st.colour, cols, Split(args, 59))
                       IN  IF r.ok THEN [keep EXCEPT !.colour = r.colour, !.control = <<>>]
                           ELSE [keep EXCEPT !.status = "err", !.colour = r.colour]
             ELSE IF byte = 116      \* t
             THEN IF Len(st.control) < 2 THEN [keep EXCEPT !.status = "panic"]
                  ELSE LET cmd == Split(args, 59)
                           r == ParseBytes(cmd[2], 255)
                           g == ParseBytes(cmd[3], 255)
                           b == ParseBytes(cmd[4], 255)
                       IN  IF Len(cmd) < 2 THEN [keep EXCEPT !.status = "panic"]
                           ELSE IF r < 0 THEN [keep EXCEPT !.status = "err"]
                           ELSE IF Len(cmd) < 3 THEN [keep EXCEPT !.status = "panic"]
                           ELSE IF g < 0 THEN [keep EXCEPT !.status = "err"]
                           ELSE IF Len(cmd) < 4 THEN [keep EXCEPT !.status = "panic"]
                           ELSE IF b < 0 THEN [keep EXCEPT !.status = "err"]
                           ELSE IF cmd[1] = <<48>>
                                THEN [keep EXCEPT !.colour.bg = <<r, g, b>>, !.control = <<>>]
                           ELSE IF cmd[1] = <<49>>
                                THEN [keep EXCEPT !.colour.fg = <<r, g, b>>, !.control = <<>>]
                           ELSE [keep EXCEPT !.control = <<>>]
             ELSE IF byte = 66       \* B
             THEN IF Len(st.control) < 2 THEN [keep EXCEPT !.status = "panic"]
                  ELSE LET n == ParseBytes(args, U16 - 1)
                       IN  IF n < 0 THEN [keep EXCEPT !.status = "err"]
                           ELSE [keep EXCEPT !.status = IF st.y + n >= U16 THEN "overflow" ELSE "ok",
                                             !.y = (st.y + n) % U16, !.control = <<>>]
             ELSE IF byte = 67       \* C
             THEN IF Len(st.control) < 2 THEN [keep EXCEPT !.status = "panic"]
                  ELSE LET n == ParseBytes(args, U16 - 1)
                       IN  IF n < 0 THEN [keep EXCEPT !.status = "err"]
                           ELSE [keep EXCEPT !.status = IF st.x + n >= U16 THEN "overflow" ELSE "ok",
                                             !.x = CursorForward((st.x + n) % U16, MetaWidth(m)),
                                             !.control = <<>>]
             ELSE IF Len(st.control) > 1 /\ byte \in 64..126
             THEN [keep EXCEPT !.control = <<>>]
             ELSE [keep EXCEPT !.control = Push(st.control, byte)]
        ELSE IF byte = 27 THEN [keep EXCEPT !.control = Push(st.control, byte)]
        ELSE IF byte = 13 THEN [keep EXCEPT !.x = 0]
        ELSE IF byte = 10 THEN [keep EXCEPT !.x = 0, !.y = st.y + 1]
        ELSE [keep EXCEPT !.call = <<[byte |-> byte, pos |-> <<st.x, st.y>>,
                                      colours |-> <<st.colour.bg, st.colour.fg>>]>>,
                          !.x = Advance(st.x, st.y, MetaWidth(m))[1],
                          !.y = Advance(st.x, st.y, MetaWidth(m))[2]]

-----------------------------------------------------------------------------
(* The state of a rendering pass before read_by_bytes_full has been called. *)

\* the state of the closure before the first byte
ClosureStart(cols) ==
    [status |-> "ok", x |-> 0, y |-> 0,
     colour |-> [bg |-> cols[1], fg |-> cols[16], bright |-> FALSE],
     control |-> <<>>, call |-> <<>>]

RECURSIVE ClosureRun(_, _, _, _)
\* read_by_bytes with the closure of read_by_bytes_full: the bytes in turn, up to
\* the first one on which the closure does not return Ok
ClosureRun(bytes, m, cols, st) ==
    IF bytes = <<>> \/ st.status # "ok" THEN st
    ELSE ClosureRun(Tail(bytes), m, cols, Closure(Head(bytes), m, cols, st))

NoColour == [bg |-> <<0, 0, 0>>, fg |-> <<0, 0, 0>>, bright |-> FALSE]

RenderIdle ==
    /\ x = 0
    /\ y = 0
    /\ colour = NoColour
    /\ control = <<>>
    /\ colours = <<>>
    /\ calls = <<>>
    /\ scheme = <<>>
    /\ chunk = <<>>

-----------------------------------------------------------------------------
(* Input values.  A Meta is built as the tests build it, from Meta::default()  *)
(* with some fields replaced (struct update syntax).                        *)

MaxEdits == 2      \* fields replaced in one Meta
MaxTypeByte == 9   \* largest type byte swept (8 is the last named data type)

Titles ==
    { <<84, 73, 84, 76, 69>>,      \* "TITLE"
      <<32, 65>>, <<65, 32>>,      \* " A", "A "
      Repeat(120, 35), Repeat(120, 36),
      Repeat(945, 17), Repeat(945, 18),   \* U+03B1, two UTF-8 bytes each
      <<65, 10>>,                  \* "A\n"
      <<128683>> }                 \* U+1F6AB, not in the table
Authors == { <<65, 85, 84, 72, 79, 82>>, <<32, 66, 32>>, Repeat(120, 21) }
Groups == { <<71, 82, 79, 85, 80>>, <<71, 0>>, Repeat(9617, 6) }
Dates ==
    { <<49, 57, 55, 48, 48, 49, 48, 49>>,   \* "19700101"
      <<49, 57, 55, 48, 48, 50, 51, 48>>,   \* "19700230"
      <<50, 48, 50, 52, 48, 50, 50, 57>>,   \* "20240229"
      <<49, 57, 55, 48, 32, 49, 32, 49>>,   \* "1970 1 1"
      <<43, 49, 57, 55, 32, 49, 32, 49>>,   \* "+197 1 1"
      <<49, 57, 55, 48, 49, 51, 48, 49>>,   \* "19701301"
      <<49, 57, 55, 48, 48, 49, 48, 88>>,   \* "1970010X"
      <<49, 57, 55, 48, 48, 49, 48, 49, 49>>,   \* "197001011"
      Repeat(945, 4),                       \* four characters, eight bytes
      Repeat(945, 8),                       \* eight characters, sixteen bytes
      <<88>> }                              \* "X"
\* sizes stay below 2^31, the largest integer of the checker
Sizes == { 416, 2147483647 }
Types == { <<0, 0>>, <<1, 0>>, <<0, 1>>, <<2, 0>>, <<255, 255>> }
Widths == { 0, 300 }
Heights == { 0, 65535 }
FlagValues == { 0, 1, 7, 25, 33 }
Fonts == { <<>>, IBM_VGA_437, <<88>> }
NoteLists ==
    { << <<76, 111, 114, 101, 109>>, <<105, 112, 115, 117, 109>> >>,   \* "Lorem", "ipsum"
      << <<>> >>,
      << <<32, 120>>, <<121, 32>>, <<122>> >>,
      << <<110>>, Repeat(120, 65) >>,
      << <<110, 27>> >> }

\* the Metas one struct update away from those of S
Upd(S) ==
    S \cup { [m EXCEPT !.title = v] : m \in S, v \in Titles }
      \cup { [m EXCEPT !.author = v] : m \in S, v \in Authors }
      \cup { [m EXCEPT !.group = v] : m \in S, v \in Groups }
      \cup { [m EXCEPT !.date = v] : m \in S, v \in Dates }
      \cup { [m EXCEPT !.size = v] : m \in S, v \in Sizes }
      \cup { [m EXCEPT !.type = v] : m \in S, v \in Types }
      \cup { [m EXCEPT !.width = v] : m \in S, v \in Widths }
      \cup { [m EXCEPT !.height = v] : m \in S, v \in Heights }
      \cup { [m EXCEPT !.flags = v] : m \in S, v \in FlagValues }
      \cup { [m EXCEPT !.font = v] : m \in S, v \in Fonts }
      \cup { [m EXCEPT !.notes = v] : m \in S, v \in NoteLists }

RECURSIVE Overrides(_)
Overrides(k) == IF k = 0 THEN {DefaultMeta} ELSE Upd(Overrides(k - 1))

\* every u8 flags value, and every pair of type bytes up to MaxTypeByte
FlagSweep == { [DefaultMeta EXCEPT !.flags = f] : f \in Bytes }
TypeSweep == { [DefaultMeta EXCEPT !.type = <<a, b>>] : a, b \in 0..MaxTypeByte }

InputMetas == Overrides(MaxEdits) \cup FlagSweep \cup TypeSweep

Bodies == { <<>>, <<72, 105, 26>>, <<65>> \o write_meta(DefaultMeta).bytes }

NoRes == [all |-> Ok]

-----------------------------------------------------------------------------
(* SpecMeta: one Meta value through its life: validated, serialized after a *)
(* body, located and parsed again.                                          *)

InitMeta ==
    /\ pc = "new"
    /\ meta \in {None} \cup { Some(m) : m \in InputMetas }
    /\ file \in Bodies
    /\ input = None
    /\ key = <<>>
    /\ value = <<>>
    /\ out = <<>>
    /\ res = NoRes
    /\ readback = ROk(None)
    /\ index = 0
    /\ edits = 0
    /\ RenderIdle

\* meta::check and each per-field check on the Meta, and what a renderer
\* derives from its flags
CheckMeta ==
    /\ pc = "new"
    /\ res' = [all |-> check(meta), title |-> check_title(meta), author |-> check_author(meta),
               group |-> check_group(meta), date |-> check_date(meta), type |-> check_type(meta),
               flags |-> check_flags(meta), font |-> check_font(meta), notes |-> check_notes(meta),
               aspect_ratio |-> IF IsSome(meta) THEN aspect_ratio(Unwrap(meta)) ELSE <<>>,
               font_width |-> IF IsSome(meta) THEN font_width(Unwrap(meta)) ELSE 0]
    /\ pc' = "checked"
    /\ UNCHANGED <<meta, input, file, key, value, out, readback, index, edits>>
    /\ UNCHANGED renderVars

\* the body, then write_meta, as print does once check has succeeded
WriteFile ==
    /\ pc = "checked"
    /\ IsSome(meta)
    /\ res.all.ok
    /\ LET w == write_meta(Unwrap(meta))
       IN  /\ out' = file \o w.bytes
           /\ pc' = IF w.ok THEN "written" ELSE "failed"
    /\ UNCHANGED <<meta, input, file, key, value, res, readback, index, edits>>
    /\ UNCHANGED renderVars

\* meta::get on the written file
ReadFile ==
    /\ pc = "written"
    /\ readback' = read(out)
    /\ pc' = "read"
    /\ UNCHANGED <<meta, input, file, key, value, out, res, index, edits>>
    /\ UNCHANGED renderVars

NextMeta == CheckMeta \/ WriteFile \/ ReadFile

SpecMeta == InitMeta /\ [][NextMeta]_vars

-----------------------------------------------------------------------------
(* SpecLocate: files of any shape handed to the locator.  A file starts as a  *)
(* body followed by a written record, or as a body alone, and is then cut   *)
(* or overwritten at the places the locator looks at.                       *)

MaxCorrupt == 1    \* cuts and overwritten bytes per file
MaxComments == 2   \* comment lines whose sentinel and COMNT tag are overwritten

OneNote == << <<110, 111, 116, 101>> >>   \* "note"
TwoNotes == << <<76, 111, 114, 101, 109>>, <<105, 112, 115, 117, 109>> >>

LocateFiles ==
    { b \o write_meta([DefaultMeta EXCEPT !.notes = n]).bytes :
          b \in { <<>>, <<72, 105, 26>> }, n \in { <<>>, OneNote, TwoNotes } }
    \cup { Repeat(65, 129), Repeat(32, 300) }

\* lengths a file is cut down to, keeping its end
CutLengths == { 0, 1, 127, 128, 129, 130, 197, 198 }

\* offsets from the end of the file of the bytes read_raw and read depend on: the
\* comment count, the tag, the sentinel, and per comment count the sentinel and
\* the first and last byte of COMNT
PokeOffsets ==
    { 24, 122, 128, 129 }
    \cup UNION { { 64 * c + 134, 64 * c + 133, 64 * c + 129 } : c \in 1..MaxComments }
PokeBytes == { 0, 1, 26, 255 }

InitLocate ==
    /\ pc = "file"
    /\ file \in LocateFiles
    /\ meta = None
    /\ input = None
    /\ key = <<>>
    /\ value = <<>>
    /\ out = <<>>
    /\ res = ROk(None)
    /\ readback = ROk(None)
    /\ index = 0
    /\ edits = 0
    /\ RenderIdle

\* keep only the last k bytes of the file
Cut(k) ==
    /\ pc = "file"
    /\ edits < MaxCorrupt
    /\ k < Len(file)
    /\ file' = SubSeq(file, Len(file) - k + 1, Len(file))
    /\ edits' = edits + 1
    /\ UNCHANGED <<pc, meta, input, key, value, out, res, readback, index>>
    /\ UNCHANGED renderVars

\* overwrite the byte at offset off from the end of the file
Poke(off, b) ==
    /\ pc = "file"
    /\ edits < MaxCorrupt
    /\ off <= Len(file)
    /\ file' = [file EXCEPT ![Len(file) - off + 1] = b]
    /\ edits' = edits + 1
    /\ UNCHANGED <<pc, meta, input, key, value, out, res, readback, index>>
    /\ UNCHANGED renderVars

\* read_raw on the file, and meta::read on it
Locate ==
    /\ pc = "file"
    /\ res' = read_raw(file)
    /\ readback' = read(file)
    /\ pc' = "located"
    /\ UNCHANGED <<meta, input, file, key, value, out, index, edits>>
    /\ UNCHANGED renderVars

NextLocate ==
    \/ \E k \in CutLengths : Cut(k)
    \/ \E off \in PokeOffsets, b \in PokeBytes : Poke(off, b)
    \/ Locate

SpecLocate == InitLocate /\ [][NextLocate]_vars

-----------------------------------------------------------------------------
(* Spec: one run of the set-meta tool (process, then print), followed by the *)
(* test harness reading the written file back.                              *)

CHUNK == 4096   \* 1 << 12, the chunk buffer of read_by_chunks

Keys == { "title", "author", "group", "date", "size", "type", "width", "height",
          "flags", "font", "notes", "foo" }

Values ==
    {
      <<84, 73, 84, 76, 69>>,                                      \* TITLE
      <<32, 32, 112, 97, 100, 100, 101, 100, 32, 92, 116>>,        \* "  padded \t"
      <<92, 120, 52, 48>>,                                         \* \x40
      <<92, 110>>,                                                 \* \n
      <<76, 111, 114, 101, 109, 92, 110, 32, 105, 112, 115, 117, 109, 32, 92, 110, 92, 110, 100, 111, 108, 111, 114>>, \* Lorem\n ipsum \n\ndolor
      <<67, 104, 97, 114, 97, 99, 116, 101, 114, 47, 65, 78, 83, 73>>, \* Character/ANSI
      <<110, 111, 110, 101>>,                                      \* none
      <<99, 104, 97, 114, 97, 99, 116, 101, 114, 47, 97, 115, 99, 105, 105>>, \* character/ascii
      <<51, 50>>,                                                  \* 32
      <<54, 53, 53, 51, 54>>,                                      \* 65536
      <<43, 55>>,                                                  \* +7
      <<48, 120, 49, 70>>,                                         \* 0x1F
      <<48, 98, 49, 48, 49>>,                                      \* 0b101
      <<50, 53, 54>>,                                              \* 256
      <<48, 120>>,                                                 \* 0x
      <<73, 66, 77, 32, 86, 71, 65>>,                              \* IBM VGA
      <<73, 66, 77, 32, 86, 71, 65, 32, 52, 51, 55>>,              \* IBM VGA 437
      <<49, 57, 55, 48, 48, 49, 48, 49>>,                          \* 19700101
      <<>>,                                                        \* the empty string
      <<128683>>,                                                  \* U+1F6AB
      <<92, 117, 68, 56, 48, 48>>,                                 \* \uD800
      <<92, 117, 51, 66, 49>>,                                     \* \u3B1
      <<92, 92, 48>>,                                              \* \\0
      <<92, 113>>                                                  \* \q
    }

HiBody == <<72, 105, 33>>   \* "Hi!"

ToolFiles ==
    { <<>>,
      HiBody,
      HiBody \o write_meta([DefaultMeta EXCEPT !.size = 3, !.title = <<84, 73, 84, 76, 69>>]).bytes,
      HiBody \o write_meta([DefaultMeta EXCEPT !.size = 3, !.notes = TwoNotes]).bytes,
      HiBody \o write_meta([DefaultMeta EXCEPT !.size = 1, !.flags = 1]).bytes,
      \* a record that claims one comment line the file does not hold
      [write_meta(DefaultMeta).bytes EXCEPT ![129 - 24 + 1] = 1] }

Init ==
    /\ pc = "start"
    /\ file \in ToolFiles
    /\ key \in Keys
    /\ value \in Values
    /\ meta = None
    /\ input = None
    /\ out = <<>>
    /\ res = OK
    /\ readback = ROk(None)
    /\ index = 0
    /\ edits = 0
    /\ RenderIdle

\* Input::new: the record of the file, and the size of its content
InputNew ==
    /\ pc = "start"
    /\ LET r == read(file)
       IN  IF r.err
           THEN /\ res' = FAIL("read")
                /\ pc' = "done"
                /\ input' = None
           ELSE /\ input' = Some([size |-> IF IsSome(r.val) THEN Unwrap(r.val).size ELSE Len(file),
                                  meta |-> r.val])
                /\ pc' = "print"
                /\ res' = res
    /\ UNCHANGED <<meta, file, key, value, out, readback, index, edits>>
    /\ UNCHANGED renderVars

\* the Meta print starts from: the file's, or the defaults with the file's size
BaseMeta ==
    IF IsSome(Unwrap(input).meta) THEN Unwrap(Unwrap(input).meta)
    ELSE [DefaultMeta EXCEPT !.size = Unwrap(input).size]

\* print, up to and including set_meta(&mut meta, key, escape(value))?
PrintSetMeta ==
    /\ pc = "print"
    /\ LET e == escape(value)
           r == set_meta(BaseMeta, key, e.str)
       IN  IF ~e.ok
           THEN /\ meta' = Some(BaseMeta)
                /\ res' = FAIL("Invalid unicode")
                /\ pc' = "done"
           ELSE /\ meta' = Some(r.meta)
                /\ res' = r.code
                /\ pc' = IF r.code = OK THEN "check" ELSE "done"
    /\ UNCHANGED <<input, file, key, value, out, readback, index, edits>>
    /\ UNCHANGED renderVars

\* print with the body written before the Meta is checked
PrintCheck_BodyFirst ==
    /\ pc = "check"
    /\ IF check(meta).ok
       THEN /\ pc' = "body"
            /\ UNCHANGED <<res, out>>
       ELSE /\ res' = FAIL(check(meta).msg)
            /\ out' = SubSeq(file, 1, Min(Unwrap(input).size, Len(file)))
            /\ pc' = "done"
    /\ index' = 0
    /\ UNCHANGED <<meta, input, file, key, value, readback, edits>>
    /\ UNCHANGED renderVars

\* print: meta::check(Some(&meta))?
PrintCheck ==
    /\ pc = "check"
    /\ IF check(meta).ok
       THEN /\ pc' = "body"
            /\ res' = res
       ELSE /\ res' = FAIL(check(meta).msg)
            /\ pc' = "done"
    /\ index' = 0
    /\ UNCHANGED <<meta, input, file, key, value, out, readback, edits>>
    /\ UNCHANGED renderVars

\* what one reader.read(&mut chunk) may return with rem bytes left in the file: 0 at
\* the end of the file, else a full chunk (or all that is left) or a short read
ReadCounts(rem) == IF rem <= 0 THEN {0} ELSE {Min(CHUNK, rem), 1}

\* one turn of the loop of read_by_chunks, with print's callback output.write(chunk)
ReadChunk ==
    /\ pc = "body"
    /\ index < Unwrap(input).size
    /\ \E n \in ReadCounts(Len(file) - index) :
          LET count == Min(n, Unwrap(input).size - index)
          IN  /\ out' = out \o SubSeq(file, index + 1, index + count)
              /\ index' = index + count
    /\ UNCHANGED <<pc, meta, input, file, key, value, res, readback, edits>>
    /\ UNCHANGED renderVars

\* print: return write_meta(output, meta), once read_by_chunks has returned
PrintWriteMeta ==
    /\ pc = "body"
    /\ index >= Unwrap(input).size
    /\ LET w == write_meta(Unwrap(meta))
       IN  /\ out' = out \o w.bytes
           /\ res' = IF w.ok THEN OK ELSE FAIL("is not a valid CP437 character")
    /\ pc' = "done"
    /\ UNCHANGED <<meta, input, file, key, value, readback, index, edits>>
    /\ UNCHANGED renderVars

\* test_utils::file_meta: meta::get on the file the run wrote
FileMeta ==
    /\ pc = "done"
    /\ res = OK
    /\ readback' = read(out)
    /\ pc' = "verified"
    /\ UNCHANGED <<meta, input, file, key, value, out, res, index, edits>>
    /\ UNCHANGED renderVars

Next == InputNew \/ PrintSetMeta \/ PrintCheck \/ ReadChunk \/ PrintWriteMeta \/ FileMeta

Spec == Init /\ [][Next]_vars

-----------------------------------------------------------------------------
(* SpecRender: a renderer (to-png, to-svg, thumbnail) opens a file and      *)
(* passes its content, byte by byte, through read_by_bytes_full.            *)

MaxTokens == 2   \* characters and control sequences in one body

RenderTokens ==
    {
      <<65>>,                                            \* A
      <<10>>,                                            \* \n
      <<13>>,                                            \* \r
      <<27, 91, 49, 59, 51, 51, 109>>,                   \* ESC[1;33m
      <<27, 91, 52, 52, 109>>,                           \* ESC[44m
      <<27, 91, 109>>,                                   \* ESC[m
      <<27, 91, 57, 53, 59, 49, 48, 50, 109>>,           \* ESC[95;102m
      <<27, 91, 50, 66>>,                                \* ESC[2B
      <<27, 91, 54, 53, 53, 51, 53, 66>>,                \* ESC[65535B
      <<27, 91, 51, 67>>,                                \* ESC[3C
      <<27, 91, 54, 53, 53, 51, 53, 67>>,                \* ESC[65535C
      <<27, 91, 49, 59, 49, 59, 50, 59, 51, 116>>,       \* ESC[1;1;2;3t
      <<27, 91, 48, 59, 57, 116>>,                       \* ESC[0;9t: too few arguments
      <<27, 109>>,                                       \* ESC m: no arguments at all
      <<27, 91, 66>>,                                    \* ESC[B: an empty number
      <<27, 91, 53, 65>>,                                \* ESC[5A: not a known command
      <<27, 91, 49, 59, 255, 109>> }                     \* ESC[1;<0xFF>m: not UTF-8

RECURSIVE TokenStreams(_)
\* the byte streams made of at most k tokens
TokenStreams(k) ==
    IF k = 0 THEN { <<>> }
    ELSE TokenStreams(k - 1) \cup { s \o t : s \in TokenStreams(k - 1), t \in RenderTokens }

\* longer streams: a background, then bright and a foreground, then a character;
\* a bright foreground reset before the character; a row of text that wraps
RenderExtra ==
    { <<27, 91, 52, 52, 109, 27, 91, 49, 59, 51, 51, 109, 65>>,
      <<27, 91, 49, 59, 48, 59, 51, 51, 109, 65>>,
      <<27, 91, 51, 51, 59, 49, 109, 65>>,
      <<27, 91, 49, 59, 51, 48, 109, 65>>,
      <<27, 91, 49, 59, 51, 55, 109, 65>>,
      <<65, 66, 67, 68, 69, 10, 70>>,
      <<65, 27, 91, 49, 59, 53, 59, 51, 49, 109, 65>>,   \* an unknown SGR number between known ones
      <<65, 27, 91, 50, 59, 49, 59, 50, 59, 51, 116, 65>>,   \* a colour for target 2
      <<65, 27, 91, 50, 59, 50, 53, 54, 59, 48, 59, 48, 116, 65>>,   \* target 2 and a red of 256
      <<65, 27, 91, 49, 56, 52, 52, 54, 55, 52, 52, 48, 55, 51, 55, 48, 57, 53, 53, 49, 54, 49, 53, 109, 65>>,   \* usize::MAX as an SGR number
      <<65, 27, 91, 57, 57, 57, 57, 57, 57, 57, 57, 57, 57, 57, 57, 57, 57, 57, 57, 57, 57, 57, 57, 109, 65>>,   \* an SGR number above usize::MAX
      <<65, 27, 91, 53, 65, 65>> } \* a final byte that is no known command

RenderBodies == TokenStreams(MaxTokens) \cup RenderExtra

\* width and height stored in the record; <<>> stands for a file without one
RenderGrids == { <<>>, <<32, 8>>, <<2, 2>>, <<1, 0>> }

RenderFile(body, grid) ==
    IF grid = <<>> THEN body
    ELSE body \o write_meta([DefaultMeta EXCEPT !.size = Len(body), !.width = grid[1],
                                                !.height = grid[2]]).bytes

RenderSchemes == { <<99, 108, 97, 115, 115, 105, 99>>, <<120>> }

InitRender ==
    /\ pc = "start"
    /\ \E body \in RenderBodies, grid \in RenderGrids : file = RenderFile(body, grid)
    /\ scheme \in RenderSchemes
    /\ meta = None
    /\ input = None
    /\ key = <<>>
    /\ value = <<>>
    /\ out = <<>>
    /\ res = OK
    /\ readback = ROk(None)
    /\ index = 0
    /\ edits = 0
    /\ x = 0
    /\ y = 0
    /\ colour = NoColour
    /\ control = <<>>
    /\ colours = <<>>
    /\ calls = <<>>
    /\ chunk = <<>>

\* Input::new for a renderer
RenderInputNew ==
    /\ pc = "start"
    /\ LET r == read(file)
       IN  IF r.err
           THEN /\ res' = FAIL("read")
                /\ pc' = "done"
                /\ input' = None
           ELSE /\ input' = Some([size |-> IF IsSome(r.val) THEN Unwrap(r.val).size ELSE Len(file),
                                  meta |-> r.val])
                /\ pc' = "opened"
                /\ res' = res
    /\ UNCHANGED <<meta, file, key, value, out, readback, index, edits>>
    /\ UNCHANGED renderVars

\* read_by_bytes_full up to the call of read_by_bytes: the Meta, the colours of
\* the scheme, the initial colour, accumulator and cursor
RenderBegin ==
    /\ pc = "opened"
    /\ LET s == ColourScheme_get(scheme)
       IN  IF s.ok
           THEN /\ colours' = ColourScheme_colours(s.val)
                /\ colour' = [bg |-> ColourScheme_colours(s.val)[1],
                              fg |-> ColourScheme_colours(s.val)[16], bright |-> FALSE]
                /\ pc' = "render"
                /\ res' = res
           ELSE /\ res' = FAIL(s.msg)
                /\ pc' = "done"
                /\ UNCHANGED <<colours, colour>>
    /\ meta' = Some(BaseMeta)
    /\ control' = <<>>
    /\ x' = 0
    /\ y' = 0
    /\ index' = 0
    /\ UNCHANGED <<input, file, key, value, out, readback, edits, calls, scheme, chunk>>

\* the closure of read_by_bytes_full on the next byte of the content
RenderByte ==
    /\ pc = "render"
    /\ index < Unwrap(input).size
    /\ index < Len(file)
    /\ LET r == Closure(file[index + 1], Unwrap(meta), colours,
                        [x |-> x, y |-> y, colour |-> colour, control |-> control])
       IN  \/ /\ r.status \in {"ok", "overflow"}   \* overflow wraps without overflow checks
              /\ x' = r.x
              /\ y' = r.y
              /\ colour' = r.colour
              /\ control' = r.control
              /\ calls' = calls \o r.call
              /\ index' = index + 1
              /\ UNCHANGED <<pc, res>>
           \/ /\ r.status = "err"
              /\ res' = ERROR("parse")
              /\ pc' = "done"
              /\ UNCHANGED <<x, y, colour, control, calls, index>>
           \/ /\ r.status \in {"panic", "overflow"}   \* overflow panics with overflow checks
              /\ pc' = "panic"
              /\ UNCHANGED <<x, y, colour, control, calls, index, res>>
    /\ UNCHANGED <<meta, input, file, key, value, out, readback, edits, colours, scheme, chunk>>

\* read_by_chunks has handed over size bytes: the pass returns Ok
RenderEnd ==
    /\ pc = "render"
    /\ index >= Unwrap(input).size
    /\ pc' = "done"
    /\ res' = OK
    /\ UNCHANGED <<meta, input, file, key, value, out, readback, index, edits>>
    /\ UNCHANGED renderVars

NextRender == RenderInputNew \/ RenderBegin \/ RenderByte \/ RenderEnd

SpecRender == InitRender /\ [][NextRender]_vars

-----------------------------------------------------------------------------
(* SpecCodec: a byte string decoded with to_utf8 and encoded again with     *)
(* to_cp437, and a string encoded with to_cp437.                            *)

\* bytes paired with each other in the two-byte inputs: the control bytes the
\* validators reserve, a letter, and the two ends of the upper half
CodecPairBytes == {0, 10, 13, 26, 27, 65, 128, 255}

CodecBytes == { <<>> } \cup { <<b>> : b \in Bytes } \cup { <<a, b>> : a, b \in CodecPairBytes }

\* strings given to to_cp437 directly: in the table, and outside it
CodecStrings == { <<65, 9617>>, <<128683>>, <<65, 128683, 66>>, <<160>>, <<8962>> }

InitCodec ==
    /\ \/ pc = "bytes" /\ file \in CodecBytes /\ value = <<>>
       \/ pc = "string" /\ file = <<>> /\ value \in CodecStrings
    /\ meta = None
    /\ input = None
    /\ key = <<>>
    /\ out = <<>>
    /\ res = OK
    /\ readback = ROk(None)
    /\ index = 0
    /\ edits = 0
    /\ RenderIdle

\* to_utf8 on the bytes
ToUtf8 ==
    /\ pc = "bytes"
    /\ value' = to_utf8(file)
    /\ pc' = "utf8"
    /\ UNCHANGED <<meta, input, file, key, out, res, readback, index, edits>>
    /\ UNCHANGED renderVars

\* to_cp437 on the string
ToCp437 ==
    /\ pc \in {"utf8", "string"}
    /\ LET r == to_cp437(value)
       IN  /\ out' = r.bytes
           /\ res' = IF r.ok THEN OK ELSE FAIL("is not a valid CP437 character")
    /\ pc' = IF pc = "utf8" THEN "cp437" ELSE "encoded"
    /\ UNCHANGED <<meta, input, file, key, value, readback, index, edits>>
    /\ UNCHANGED renderVars

NextCodec == ToUtf8 \/ ToCp437

SpecCodec == InitCodec /\ [][NextCodec]_vars

-----------------------------------------------------------------------------
(* SpecScheme: a scheme name parsed with ColourScheme::get, the scheme      *)
(* printed with ColourScheme::name, and the printed name parsed again.      *)

\* a palette none of whose bytes repeats within a colour
STRIPES == [k \in 1..16 |-> <<16 * (k - 1) + 10, 255 - k, k>>]

CustomPalettes == { CLASSIC_COLOURS, MODERN_COLOURS, STRIPES }
EntryCounts == { 0, 1, 15, 16, 17 }
LetterCases == { "lower", "upper", "mixed" }

HexDigitIn(d, case) == IF d < 10 THEN 48 + d ELSE IF case = "upper" THEN 55 + d ELSE 87 + d

\* #RRGGBB in the letter case
CodeIn(c, case) ==
    <<35, HexDigitIn(c[1] \div 16, case), HexDigitIn(c[1] % 16, case),
          HexDigitIn(c[2] \div 16, case), HexDigitIn(c[2] % 16, case),
          HexDigitIn(c[3] \div 16, case), HexDigitIn(c[3] % 16, case)>>

RECURSIVE CodesIn(_, _, _, _)
\* entries k..n of the palette (taken cyclically), comma separated
CodesIn(p, k, n, case) ==
    IF k > n THEN <<>>
    ELSE CodeIn(p[((k - 1) % 16) + 1], case) \o (IF k < n THEN <<44>> ELSE <<>>)
         \o CodesIn(p, k + 1, n, case)

PrefixIn(case) ==
    IF case = "upper" THEN <<67, 85, 83, 84, 79, 77, 40>>
    ELSE IF case = "lower" THEN <<99, 117, 115, 116, 111, 109, 40>>
    ELSE <<67, 117, 83, 116, 79, 109, 40>>

\* CUSTOM(#RRGGBB,...) with the first n entries of the palette
CustomString(p, n, case) == PrefixIn(case) \o CodesIn(p, 1, n, case) \o <<41>>

PresetStrings ==
    { PresetNames[i][2] : i \in 1..Len(PresetNames) }
    \cup { to_lowercase(PresetNames[i][2]) : i \in 1..Len(PresetNames) }
    \cup { <<67, 108, 65, 115, 83, 105, 67>>, <<77, 111, 68, 101, 82, 110>>, <<68, 114, 65, 99, 85, 108, 65>> }

\* names that are no scheme, and names close to one
OtherStrings ==
    {
      <<120>>,                                           \* x
      <<>>,                                              \* the empty name
      <<99, 117, 115, 116, 111, 109>>,                   \* custom
      <<67, 85, 83, 84, 79, 77, 40>>,                    \* CUSTOM(
      <<67, 117, 83, 116, 79, 109, 40, 41>>,             \* CuStOm()
      <<99, 108, 97, 115, 115, 105, 99, 32>>,            \* classic and a space
      <<67, 76, 65, 83, 83, 73, 67, 10>>,                \* CLASSIC and a line feed
      <<99, 108, 97, 383, 383, 105, 99>>,                \* classic with two U+017F
      <<109, 111, 100, 101, 305, 110>>,                  \* mode, U+0131, n
      <<120, 67, 85, 83, 84, 79, 77, 40, 41>>,           \* xCUSTOM()
      <<67, 117, 115, 116, 111, 109>> }                  \* Custom

\* a custom scheme with one digit that is not hexadecimal, and one with a
\* line feed after the closing parenthesis
BrokenStrings ==
    { [CustomString(STRIPES, 16, "upper") EXCEPT ![9] = 71],
      CustomString(STRIPES, 16, "lower") \o <<10>>,
      [CustomString(STRIPES, 16, "lower") EXCEPT ![15] = 59] }

SchemeStrings ==
    { CustomString(p, n, case) : p \in CustomPalettes, n \in EntryCounts, case \in LetterCases }
    \cup PresetStrings \cup OtherStrings \cup BrokenStrings

NoScheme == SchemeErr("", <<>>)

InitScheme ==
    /\ pc = "name"
    /\ scheme \in SchemeStrings
    /\ res = NoScheme
    /\ readback = NoScheme
    /\ value = <<>>
    /\ meta = None
    /\ input = None
    /\ file = <<>>
    /\ key = <<>>
    /\ out = <<>>
    /\ index = 0
    /\ edits = 0
    /\ x = 0
    /\ y = 0
    /\ colour = NoColour
    /\ control = <<>>
    /\ colours = <<>>
    /\ calls = <<>>
    /\ chunk = <<>>

\* ColourScheme::get on the name
GetScheme ==
    /\ pc = "name"
    /\ res' = ColourScheme_get(scheme)
    /\ colours' = IF ColourScheme_get(scheme).ok
                  THEN ColourScheme_colours(ColourScheme_get(scheme).val) ELSE colours
    /\ pc' = "got"
    /\ UNCHANGED <<meta, input, file, key, value, out, readback, index, edits>>
    /\ UNCHANGED <<x, y, colour, control, calls, scheme, chunk>>

\* ColourScheme::name on the scheme that get returned
NameScheme ==
    /\ pc = "got"
    /\ res.ok
    /\ value' = ColourScheme_name(res.val)
    /\ pc' = "named"
    /\ UNCHANGED <<meta, input, file, key, out, res, readback, index, edits>>
    /\ UNCHANGED renderVars

\* ColourScheme::get on the printed name
GetNamed ==
    /\ pc = "named"
    /\ readback' = ColourScheme_get(value)
    /\ pc' = "again"
    /\ UNCHANGED <<meta, input, file, key, value, out, res, index, edits>>
    /\ UNCHANGED renderVars

NextScheme == GetScheme \/ NameScheme \/ GetNamed

SpecScheme == InitScheme /\ [][NextScheme]_vars

-----------------------------------------------------------------------------
(* SpecRemove: the remove-meta tool: Input::new, then read_by_chunks with   *)
(* every chunk written to the output.                                       *)

\* a size field larger than any file here
HugeSize == 1000

RemoveFiles ==
    { <<>>,
      HiBody,
      Repeat(65, CHUNK + 2),
      HiBody \o write_meta([DefaultMeta EXCEPT !.size = 3]).bytes,
      HiBody \o write_meta([DefaultMeta EXCEPT !.size = 3, !.notes = TwoNotes]).bytes,
      HiBody \o write_meta([DefaultMeta EXCEPT !.size = 1]).bytes,
      HiBody \o write_meta([DefaultMeta EXCEPT !.size = 0]).bytes,
      HiBody \o write_meta([DefaultMeta EXCEPT !.size = HugeSize]).bytes,
      Repeat(66, 140) \o write_meta([DefaultMeta EXCEPT !.size = 140]).bytes,
      \* a record that claims one comment line the file does not hold
      [write_meta(DefaultMeta).bytes EXCEPT ![129 - 24 + 1] = 1] }

InitRemove ==
    /\ pc = "start"
    /\ file \in RemoveFiles
    /\ key = <<>>
    /\ value = <<>>
    /\ meta = None
    /\ input = None
    /\ out = <<>>
    /\ res = OK
    /\ readback = ROk(None)
    /\ index = 0
    /\ edits = 0
    /\ RenderIdle

\* Input::new for remove-meta
RemoveInputNew ==
    /\ pc = "start"
    /\ LET r == read(file)
       IN  IF r.err
           THEN /\ res' = FAIL("read")
                /\ pc' = "done"
                /\ input' = None
           ELSE /\ input' = Some([size |-> IF IsSome(r.val) THEN Unwrap(r.val).size ELSE Len(file),
                                  meta |-> r.val])
                /\ pc' = "body"
                /\ res' = res
    /\ index' = 0
    /\ UNCHANGED <<meta, file, key, value, out, readback, edits>>
    /\ UNCHANGED renderVars

\* one turn of the loop of read_by_chunks, with run's callback output.write(chunk)
RemoveChunk ==
    /\ pc = "body"
    /\ index < Unwrap(input).size
    /\ \E n \in ReadCounts(Len(file) - index) :
          LET count == Min(n, Unwrap(input).size - index)
          IN  /\ out' = out \o SubSeq(file, index + 1, index + count)
              /\ index' = index + count
    /\ UNCHANGED <<pc, meta, input, file, key, value, res, readback, edits>>
    /\ UNCHANGED renderVars

\* run: read_by_chunks has returned Ok, mapped to ExitCode::OK
RemoveEnd ==
    /\ pc = "body"
    /\ index >= Unwrap(input).size
    /\ res' = OK
    /\ pc' = "done"
    /\ UNCHANGED <<meta, input, file, key, value, out, readback, index, edits>>
    /\ UNCHANGED renderVars

NextRemove == RemoveInputNew \/ RemoveChunk \/ RemoveEnd

SpecRemove == InitRemove /\ [][NextRemove]_vars

\* the tool is one sequential process: once read_by_chunks runs, a turn of its
\* loop that can be taken is taken, and so is the return that follows the loop
SpecRemoveFair == SpecRemove /\ WF_vars(RemoveChunk) /\ WF_vars(RemoveEnd)

-----------------------------------------------------------------------------
(* bins/to-txt/main.rs and SpecTxt: the to-txt tool opens a file and passes *)
(* its content through read_by_bytes, chunk by chunk and byte by byte, to   *)
(* the closure of run.                                                      *)

\* what the closure of run does with one byte: the cursor and accumulator it
\* leaves and the text it writes
TxtClosure(byte, m, st) ==
    LET char == <<CP437_TO_UTF8[(IF byte > 0 THEN byte ELSE 32) + 1]>>
        keep == [x |-> st.x, y |-> st.y, control |-> st.control, text |-> char]
    IN  IF st.y >= MetaHeight(m) THEN [keep EXCEPT !.text = <<>>]
        ELSE IF st.control # <<>>
        THEN IF Len(st.control) > 1 /\ byte \in 64..126
             THEN [keep EXCEPT !.control = <<>>]
             ELSE [keep EXCEPT !.control = Append(st.control, byte)]
        ELSE IF byte = 27 THEN [keep EXCEPT !.control = <<27>>]
        ELSE IF byte = 13 THEN [keep EXCEPT !.x = 0]
        ELSE IF byte = 10 THEN [keep EXCEPT !.x = 0, !.y = st.y + 1]
        ELSE IF st.x + 1 >= MetaWidth(m)
        THEN [keep EXCEPT !.x = 0, !.y = st.y + 1, !.text = char \o <<13, 10>>]
        ELSE [keep EXCEPT !.x = st.x + 1]

\* the count of a read with every byte of it kept, whatever size says
ChunkCount_Unclamped(count, size, i) == count

\* count = min(count, self.size.saturating_sub(index))
ChunkCount(count, size, i) == Min(count, Max(size - i, 0))

BigBody == Repeat(65, CHUNK + 2)

TxtFiles ==
    { RenderFile(body, grid) : body \in RenderBodies, grid \in RenderGrids }
    \cup { BigBody,
           RenderFile(BigBody, <<80, 60>>),
           HiBody \o write_meta([DefaultMeta EXCEPT !.size = 1]).bytes,
           HiBody \o write_meta([DefaultMeta EXCEPT !.size = HugeSize]).bytes }

InitTxt ==
    /\ pc = "start"
    /\ file \in TxtFiles
    /\ meta = None
    /\ input = None
    /\ key = <<>>
    /\ value = <<>>
    /\ out = <<>>
    /\ res = OK
    /\ readback = ROk(None)
    /\ index = 0
    /\ edits = 0
    /\ RenderIdle

\* Input::new for to-txt
TxtInputNew ==
    /\ pc = "start"
    /\ LET r == read(file)
       IN  IF r.err
           THEN /\ res' = FAIL("read")
                /\ pc' = "done"
                /\ input' = None
           ELSE /\ input' = Some([size |-> IF IsSome(r.val) THEN Unwrap(r.val).size ELSE Len(file),
                                  meta |-> r.val])
                /\ pc' = "opened"
                /\ res' = res
    /\ UNCHANGED <<meta, file, key, value, out, readback, index, edits>>
    /\ UNCHANGED renderVars

\* run up to the call of read_by_bytes: the Meta, the accumulator and the cursor
TxtBegin ==
    /\ pc = "opened"
    /\ meta' = Some(BaseMeta)
    /\ control' = <<>>
    /\ x' = 0
    /\ y' = 0
    /\ index' = 0
    /\ chunk' = <<>>
    /\ pc' = "body"
    /\ UNCHANGED <<input, file, key, value, out, res, readback, edits, colour, colours, calls,
                   scheme>>

\* one turn of the loop of read_by_chunks, up to the call of its callback
TxtChunk ==
    /\ pc = "body"
    /\ chunk = <<>>
    /\ index < Unwrap(input).size
    /\ \E n \in ReadCounts(Len(file) - index) :
          LET count == ChunkCount(n, Unwrap(input).size, index)
          IN  /\ chunk' = SubSeq(file, index + 1, index + count)
              /\ index' = index + count
    /\ UNCHANGED <<pc, meta, input, file, key, value, out, res, readback, edits>>
    /\ UNCHANGED <<x, y, colour, control, colours, calls, scheme>>

\* read_by_bytes: the next byte of the chunk given to the closure of run
TxtByte ==
    /\ pc = "body"
    /\ chunk # <<>>
    /\ LET r == TxtClosure(Head(chunk), Unwrap(meta), [x |-> x, y |-> y, control |-> control])
       IN  /\ x' = r.x
           /\ y' = r.y
           /\ control' = r.control
           /\ out' = out \o r.text
    /\ calls' = Append(calls, Head(chunk))
    /\ chunk' = Tail(chunk)
    /\ UNCHANGED <<pc, meta, input, file, key, value, res, readback, index, edits>>
    /\ UNCHANGED <<colour, colours, scheme>>

\* run: read_by_bytes has returned Ok, the final reset is written
TxtEnd ==
    /\ pc = "body"
    /\ chunk = <<>>
    /\ index >= Unwrap(input).size
    /\ out' = out \o <<27, 91, 48, 109>>
    /\ res' = OK
    /\ pc' = "done"
    /\ UNCHANGED <<meta, input, file, key, value, readback, index, edits>>
    /\ UNCHANGED renderVars

NextTxt == TxtInputNew \/ TxtBegin \/ TxtChunk \/ TxtByte \/ TxtEnd

SpecTxt == InitTxt /\ [][NextTxt]_vars

-----------------------------------------------------------------------------
(* SpecNotes: check_notes and check_note on Metas with up to 256 notes, as  *)
(* the tests of meta.rs call them.                                          *)

NoteCounts == {1, 2, 9, 10, 11, 99, 100, 101, 255, 256}

\* the places looked at: the ends of the list and the indices around 10 and 100
NotePlaces(n) == {0, 9, 10, 99, 100, n - 1} \cap (0..(n - 1))

GoodNote == <<110>>
BadNotes == { Repeat(120, 65), <<110, 27>> }

\* n notes, the one at index i (counted from 0) replaced by bad
NotesWith(n, i, bad) == [k \in 1..n |-> IF k = i + 1 THEN bad ELSE GoodNote]

NoteMetas ==
    { [DefaultMeta EXCEPT !.notes = Repeat(GoodNote, n)] : n \in NoteCounts }
    \cup { [DefaultMeta EXCEPT !.notes = NotesWith(n, i, bad)] :
               n \in NoteCounts, i \in {0, 9, 10, 99, 100, 254, 255}, bad \in BadNotes }

InitNotes ==
    /\ pc = "new"
    /\ meta \in { Some(m) : m \in NoteMetas }
    /\ file = <<>>
    /\ input = None
    /\ key = <<>>
    /\ value = <<>>
    /\ out = <<>>
    /\ res = NoRes
    /\ readback = ROk(None)
    /\ index = 0
    /\ edits = 0
    /\ RenderIdle

\* check_notes(Some(&meta))
CheckNotes ==
    /\ pc = "new"
    /\ res' = check_notes(meta)
    /\ pc' = "notes"
    /\ UNCHANGED <<meta, input, file, key, value, out, readback, index, edits>>
    /\ UNCHANGED renderVars

\* check_note(Some(&meta), i) for an index of the list
CheckNote ==
    /\ pc = "new"
    /\ \E i \in NotePlaces(Len(Unwrap(meta).notes)) :
          /\ res' = check_note(meta, i)
          /\ index' = i
    /\ pc' = "note"
    /\ UNCHANGED <<meta, input, file, key, value, out, readback, edits>>
    /\ UNCHANGED renderVars

NextNotes == CheckNotes \/ CheckNote

SpecNotes == InitNotes /\ [][NextNotes]_vars

-----------------------------------------------------------------------------
(* Claims checked under SpecMeta *)

Checked == pc # "new" /\ IsSome(meta)

\* no text field of m starts or ends with a space (0x20)
Untrimmed(t) == t # <<>> /\ (Head(t) = 32 \/ t[Len(t)] = 32)
NoOuterSpaces(m) ==
    /\ ~Untrimmed(m.title) /\ ~Untrimmed(m.author) /\ ~Untrimmed(m.group) /\ ~Untrimmed(m.date)
    /\ \A i \in 1..Len(m.notes) : ~Untrimmed(m.notes[i])

C6_CheckOrder ==
    pc # "new" =>
        /\ meta = None => res.all = Ok
        /\ res.all.ok <=> (/\ res.title.ok /\ res.author.ok /\ res.group.ok /\ res.date.ok
                           /\ res.type.ok /\ res.flags.ok /\ res.font.ok /\ res.notes.ok)
        /\ res.all =
             IF ~res.title.ok THEN res.title
             ELSE IF ~res.author.ok THEN res.author
             ELSE IF ~res.group.ok THEN res.group
             ELSE IF ~res.date.ok THEN res.date
             ELSE IF ~res.type.ok THEN res.type
             ELSE IF ~res.flags.ok THEN res.flags
             ELSE IF ~res.font.ok THEN res.font
             ELSE IF ~res.notes.ok THEN res.notes
             ELSE Ok

C6_Witness ==
    /\ Checked
    /\ ~res.type.ok
    /\ ~res.flags.ok
    /\ res.all = res.type
    /\ res.all # res.flags

\* C7: check_flags succeeds iff bit 0 is set, bits 1-2 are not both set, bits 3-4
\* are not both set and bits 5-7 are zero.
C7_FlagsValid ==
    Checked =>
        LET f == Unwrap(meta).flags
        IN  res.flags.ok <=> (/\ f % 2 = 1
                              /\ (f \div 2) % 4 # 3
                              /\ (f \div 8) % 4 # 3
                              /\ f \div 32 = 0)

C7_Witness == Checked /\ Unwrap(meta).flags = 21 /\ res.flags.ok

\* C8 as stated: flags 0x00 fails with the blink message; both letter-spacing bits
\* set fails with "Invalid letter spacing" and both aspect-ratio bits set fails
\* with "Invalid aspect ratio", whatever the other bits are.
C8_FlagMessagesAnyBits ==
    Checked =>
        LET f == Unwrap(meta).flags
        IN  /\ f = 0 => res.flags.msg = "Blink mode is unsupported"
            /\ (f \div 2) % 4 = 3 => res.flags.msg = "Invalid letter spacing"
            /\ (f \div 8) % 4 = 3 => res.flags.msg = "Invalid aspect ratio"

\* C8, amended: the messages follow the order of the tests.  Bit 0 clear (0x00
\* included) fails with the blink message; bit 0 set and both letter-spacing bits
\* set fails with "Invalid letter spacing"; bit 0 set, letter-spacing bits not both
\* set and both aspect-ratio bits set fails with "Invalid aspect ratio".
C8_FlagMessages ==
    Checked =>
        LET f == Unwrap(meta).flags
        IN  /\ f % 2 = 0 => (~res.flags.ok /\ res.flags.msg = "Blink mode is unsupported")
            /\ (f % 2 = 1 /\ (f \div 2) % 4 = 3) =>
                   (~res.flags.ok /\ res.flags.msg = "Invalid letter spacing")
            /\ (f % 2 = 1 /\ (f \div 2) % 4 # 3 /\ (f \div 8) % 4 = 3) =>
                   (~res.flags.ok /\ res.flags.msg = "Invalid aspect ratio")

C8_Witness ==
    /\ Checked
    /\ Unwrap(meta).flags = 31
    /\ res.flags.msg = "Invalid letter spacing"

\* C9: check_type succeeds for exactly (0,0), (1,0) and (1,1); every other pair,
\* (0,1) included, is rejected with "Type is unsupported".
C9_ThreeTypes ==
    Checked =>
        /\ res.type.ok <=> Unwrap(meta).type \in { <<0, 0>>, <<1, 0>>, <<1, 1>> }
        /\ ~res.type.ok => res.type.msg = "Type is unsupported"

\* C10 as stated: check_type succeeds iff major is 0 or 1 and, when major is 1,
\* minor is 0 or 1; every pair (0, minor) is accepted.
C10_MinorOnlyForCharacter ==
    Checked =>
        LET major == Unwrap(meta).type[1]
            minor == Unwrap(meta).type[2]
        IN  res.type.ok <=> (major \in {0, 1} /\ (major = 1 => minor \in {0, 1}))

\* C10, amended: check_type succeeds iff major is 0 or 1 and minor is 0 or 1; the
\* minor byte is constrained for major 0 as for major 1, so (0, minor >= 2) is
\* rejected like (1, minor >= 2) and every pair with major >= 2.
C10_TypeBytes ==
    Checked =>
        LET major == Unwrap(meta).type[1]
            minor == Unwrap(meta).type[2]
        IN  res.type.ok <=> (major \in {0, 1} /\ minor \in {0, 1})

C10_Witness ==
    /\ Checked
    /\ Unwrap(meta).type = <<0, 2>>
    /\ ~res.type.ok
    /\ res.type.msg = "Type is unsupported"
    /\ res.type.name = "None"

\* a text field as the record holds it: one CP437 byte per character, at most
\* max of them, none a control character
FieldPasses(t, max) ==
    /\ Len(t) <= max
    /\ \A i \in 1..Len(t) : t[i] \in CP437Chars \ ControlChars

\* C11: a text field (title max 35, author max 20, group max 20, each note max
\* 64) passes its check iff its CP437-encoded length, one byte per character, is
\* at most the maximum and every character is in the table and is no control
\* character; so a title of up to 35 non-ASCII CP437 characters passes.
C11_EncodedLength ==
    Checked =>
        /\ res.title.ok <=> FieldPasses(Unwrap(meta).title, 35)
        /\ res.author.ok <=> FieldPasses(Unwrap(meta).author, 20)
        /\ res.group.ok <=> FieldPasses(Unwrap(meta).group, 20)
        /\ res.notes.ok <=>
               \A i \in 1..Len(Unwrap(meta).notes) : FieldPasses(Unwrap(meta).notes[i], 64)

\* the date is eight ASCII digits YYYYMMDD that form a calendar date
IsYYYYMMDD(date) ==
    /\ Len(date) = 8
    /\ \A i \in 1..8 : IsDigit(date[i])
    /\ LET d(i) == date[i] - 48
           year == 1000 * d(1) + 100 * d(2) + 10 * d(3) + d(4)
           mo == 10 * d(5) + d(6)
           dd == 10 * d(7) + d(8)
       IN  mo \in 1..12 /\ dd >= 1 /\ dd <= DaysInMonth(year, mo)

\* C12: check_date succeeds iff the date is empty or is exactly 8 characters
\* forming a valid calendar date YYYYMMDD; a non-empty date whose length is not
\* 8 fails with "Date length is wrong", an 8-character non-date with "Date
\* format is wrong".
C12_DateYYYYMMDD ==
    Checked =>
        LET date == Unwrap(meta).date
        IN  /\ res.date.ok <=> (date = <<>> \/ IsYYYYMMDD(date))
            /\ (date # <<>> /\ Len(date) # 8) => res.date.msg = "Date length is wrong"
            /\ (Len(date) = 8 /\ ~IsYYYYMMDD(date)) => res.date.msg = "Date format is wrong"

\* a text of a valid Meta as the file holds it: padded to n characters with
\* fill, one CP437 byte per character
Padded(t, n, fill) == to_cp437(t \o Repeat(fill, n - Len(t))).bytes

RECURSIVE CommentLines(_)
CommentLines(notes) ==
    IF notes = <<>> THEN <<>> ELSE Padded(Head(notes), 64, 32) \o CommentLines(Tail(notes))

\* the 128 bytes from SAUCE00 to the font
RecordBytes(m) ==
    SAUCE00 \o Padded(m.title, 35, 32) \o Padded(m.author, 20, 32) \o Padded(m.group, 20, 32)
    \o Padded(m.date, 8, 32)
    \o <<m.size % 256, (m.size \div 256) % 256, (m.size \div 65536) % 256, m.size \div 16777216>>
    \o m.type
    \o <<m.width % 256, m.width \div 256, m.height % 256, m.height \div 256>>
    \o <<0, 0, 0, 0>>
    \o <<Len(m.notes), m.flags>>
    \o Padded(m.font, 22, 0)

C19_AspectBitsAlone ==
    Checked =>
        LET m == Unwrap(meta)
            ls == (m.flags \div 2) % 4
            ar == (m.flags \div 8) % 4
        IN  /\ \A l \in 0..3 :
                  aspect_ratio([m EXCEPT !.flags = m.flags - 2 * ls + 2 * l]) = res.aspect_ratio
            /\ \A a \in 0..3 :
                  font_width([m EXCEPT !.flags = m.flags - 8 * ar + 8 * a]) = res.font_width

\* C19, corrected: the ratio is (1,1) when bits 3-4 are 0b10; otherwise it
\* follows the letter-spacing bits, (5,6) when bits 1-2 are 0b01 and (20,27)
\* when they are not.  The font width follows the letter-spacing bits alone: 8
\* when bits 1-2 are 0b01, else 9.
C19_RatioFromBothFields ==
    Checked =>
        LET f == Unwrap(meta).flags
            ls == (f \div 2) % 4
            ar == (f \div 8) % 4
        IN  /\ res.aspect_ratio = (IF ar = 2 THEN <<1, 1>> ELSE IF ls = 1 THEN <<5, 6>> ELSE <<20, 27>>)
            /\ res.font_width = (IF ls = 1 THEN 8 ELSE 9)

C19_Witness ==
    /\ Checked
    /\ Unwrap(meta).flags = 3
    /\ res.aspect_ratio = <<5, 6>>
    /\ res.font_width = 8

-----------------------------------------------------------------------------
(* Claims checked under SpecLocate *)

Tagged(f) == Len(f) >= 128 /\ SubSeq(f, Len(f) - 127, Len(f) - 121) = SAUCE00

\* C2: read_raw returns Ok(None) for every file shorter than 129 bytes (the empty
\* file and a file of 128 bytes included) and for every longer file whose last
\* 128 bytes do not start with SAUCE00.
C2_NoRecord ==
    (pc = "located" /\ (Len(file) < 129 \/ ~Tagged(file))) => res = ROk(None)

C2_Witness == pc = "located" /\ Len(file) = 128 /\ Tagged(file) /\ res = ROk(None)

\* C3: for every file of 129 bytes or more whose last 128 bytes start with SAUCE00,
\* read_raw returns Ok(None) or Ok(Some(record)) and never an error, whatever the
\* comment count byte is.
C3_NeverAnError ==
    (pc = "located" /\ Len(file) >= 129 /\ Tagged(file)) => ~res.err

-----------------------------------------------------------------------------
(* Claims checked under Spec *)

\* C4: print writes nothing before set_meta and meta::check have both succeeded: a
\* run that ends with a usage or validation failure has written zero bytes, and a
\* successful run has written the body first and the record after it.
C4_NothingBeforeValidation ==
    /\ pc \in {"start", "print", "check"} => out = <<>>
    /\ (pc = "done" /\ res.code \in {"USAGE", "FAIL"}) => out = <<>>
    /\ pc = "body" => (check(meta).ok /\ out = SubSeq(file, 1, index))
    /\ (pc \in {"done", "verified"} /\ res = OK) =>
           /\ check(meta).ok
           /\ Len(out) = Unwrap(input).size + Len(write_meta(Unwrap(meta)).bytes)
           /\ SubSeq(out, 1, Unwrap(input).size) = SubSeq(file, 1, Unwrap(input).size)
           /\ SubSeq(out, Unwrap(input).size + 1, Len(out)) = write_meta(Unwrap(meta)).bytes

C4_Witness ==
    /\ pc = "done"
    /\ res.code = "FAIL"
    /\ IsSome(meta)
    /\ key = "title"
    /\ ~check_title(meta).ok
    /\ Unwrap(input).size > 0
    /\ out = <<>>

\* set_meta has been called in this run
SetMetaRan == IsSome(meta) /\ escape(value).ok

\* C5: after set_meta(meta, key, value) every field other than the one the key
\* names is unchanged; size never changes (key "size" returns the usage error "Size
\* can't be changed"); and when set_meta returns an error no field has changed.
C5_SetMetaFrame ==
    SetMetaRan =>
        /\ \A f \in (DOMAIN Unwrap(meta)) \ {key} : Unwrap(meta)[f] = BaseMeta[f]
        /\ Unwrap(meta).size = BaseMeta.size
        /\ key = "size" => res = USAGE("Size can't be changed")
        /\ res.code = "USAGE" => Unwrap(meta) = BaseMeta

C5_Witness ==
    /\ SetMetaRan
    /\ pc = "check"
    /\ key = "notes"
    /\ Len(Unwrap(meta).notes) = 3
    /\ Unwrap(meta).notes # BaseMeta.notes
    /\ Unwrap(meta).title # <<>>

-----------------------------------------------------------------------------
(* Claims checked under SpecRender *)

\* the bytes of the file that the pass reads
Content == SubSeq(file, 1, Min(Unwrap(input).size, Len(file)))

CallOf(byte, pos, bg, fg) == [byte |-> byte, pos |-> pos, colours |-> <<bg, fg>>]

\* C14: an SGR sequence whose parameter 1 (bright) precedes a parameter n in
\* 30..37 sets the foreground to palette[n-30+8] and leaves the background
\* unchanged: the body ESC[1;3dm followed by 0x41 invokes the callback exactly
\* once, with (0x41, (0,0), [palette[0], palette[d+8]]), and after ESC[44m the
\* background stays palette[4].
C14_BrightForeground ==
    (pc = "done" /\ res = OK) =>
        /\ \A d \in 0..7 :
              Content = <<27, 91, 49, 59, 51, 48 + d, 109, 65>>
                  => calls = <<CallOf(65, <<0, 0>>, colours[1], colours[d + 9])>>
        /\ Content = <<27, 91, 52, 52, 109, 27, 91, 49, 59, 51, 51, 109, 65>>
              => calls = <<CallOf(65, <<0, 0>>, colours[5], colours[12])>>

C14_Witness ==
    /\ pc = "done"
    /\ res = OK
    /\ MetaWidth(Unwrap(meta)) = 32
    /\ MetaHeight(Unwrap(meta)) = 8
    /\ Content = <<27, 91, 49, 59, 51, 51, 109, 65>>
    /\ calls = <<CallOf(65, <<0, 0>>, CLASSIC_COLOURS[1], CLASSIC_COLOURS[12])>>

\* C15: every invocation of the callback carries a position (x, y) with
\* 0 <= x < width and 0 <= y < height, width and height being Meta.width() and
\* Meta.height() (80/25 when the stored value is 0).
C15_InsideGrid ==
    pc \in {"render", "done", "panic"} =>
        \A i \in 1..Len(calls) :
            /\ calls[i].pos[1] \in 0..(MetaWidth(BaseMeta) - 1)
            /\ calls[i].pos[2] \in 0..(MetaHeight(BaseMeta) - 1)

C15_Witness ==
    /\ pc = "done"
    /\ MetaWidth(BaseMeta) = 2
    /\ MetaHeight(BaseMeta) = 2
    /\ Len(Content) = 7
    /\ Len(calls) = 4
    /\ calls[4].pos = <<1, 1>>

\* C16: the row y never decreases, and once y >= height no callback is invoked
\* for any later byte and the cursor, colours and accumulator stay unchanged,
\* while every remaining byte is still consumed and the pass ends without error.
C16_RowNeverDecreases ==
    [][pc = "render" =>
          /\ y' >= y
          /\ y >= MetaHeight(Unwrap(meta)) =>
                /\ calls' = calls /\ x' = x /\ y' = y /\ colour' = colour /\ control' = control
                /\ pc' \in {"render", "done"}
                /\ res' = OK
                /\ pc' = "render" => index' = index + 1]_vars

\* what the closure of read_by_bytes_full does with the next byte of the content
NextClosure ==
    Closure(file[index + 1], Unwrap(meta), colours,
            [x |-> x, y |-> y, colour |-> colour, control |-> control])

\* C24: for every input byte stream read_by_bytes_full either finishes or
\* returns an ExitCode error: the closure never indexes the accumulator or a
\* parameter list out of bounds and never overflows the u16 cursor.
C24_NeverPanics ==
    /\ pc # "panic"
    /\ (pc = "render" /\ index < Unwrap(input).size) => NextClosure.status \in {"ok", "err"}

\* a step in which the closure has handled the next byte and returned Ok
Handled == pc = "render" /\ pc' = "render" /\ index' = index + 1 /\ y < MetaHeight(Unwrap(meta))

\* C25: outside an escape sequence, byte 0x0D sets x to 0 and leaves y
\* unchanged, byte 0x0A sets x to 0 and increases y by exactly 1, byte 0x1B
\* starts the accumulator without emitting or moving, and every other byte is
\* emitted once at the current (x, y) with the current colours, after which x
\* increases by 1, wrapping to (0, y+1) exactly when x reaches width; none of
\* these steps changes the colour state.
C25_PlainBytes ==
    [][(Handled /\ control = <<>>) =>
          LET byte == file[index + 1]
              width == MetaWidth(Unwrap(meta))
          IN  /\ colour' = colour
              /\ byte = 13 => (x' = 0 /\ y' = y /\ calls' = calls /\ control' = <<>>)
              /\ byte = 10 => (x' = 0 /\ y' = y + 1 /\ calls' = calls /\ control' = <<>>)
              /\ byte = 27 => (x' = x /\ y' = y /\ calls' = calls /\ control' = <<27>>)
              /\ byte \notin {13, 10, 27} =>
                    /\ calls' = Append(calls, CallOf(byte, <<x, y>>, colour.bg, colour.fg))
                    /\ control' = <<>>
                    /\ x + 1 < width => (x' = x + 1 /\ y' = y)
                    /\ x + 1 = width => (x' = 0 /\ y' = y + 1)
                    /\ x + 1 <= width]_vars

\* a row of two columns filled by two characters: the cursor wraps to (0, 1)
C25_Witness ==
    /\ pc = "done"
    /\ res = OK
    /\ MetaWidth(Unwrap(meta)) = 2
    /\ Content = <<65, 65>>
    /\ calls = <<CallOf(65, <<0, 0>>, colours[1], colours[16]),
                 CallOf(65, <<1, 0>>, colours[1], colours[16])>>
    /\ x = 0
    /\ y = 1

\* C26: a cursor-right sequence ESC[nC sets x to min(x + n, width - 1) and never
\* changes y, the colours or the bright flag: for every n the cursor stays on
\* the same row and in a column < width, and the accumulator is empty
\* afterwards.
C26_CursorRight ==
    [][(/\ pc = "render"
        /\ index < Unwrap(input).size
        /\ y < MetaHeight(Unwrap(meta))
        /\ Len(control) >= 2
        /\ control[1] = 27
        /\ control[2] = 91
        /\ file[index + 1] = 67
        /\ ParseBytes(SubSeq(control, 3, Len(control)), U16 - 1) >= 0)
       => /\ pc' = "render"
          /\ x' = Min(x + ParseBytes(SubSeq(control, 3, Len(control)), U16 - 1),
                      MetaWidth(Unwrap(meta)) - 1)
          /\ y' = y
          /\ colour' = colour
          /\ calls' = calls
          /\ control' = <<>>]_vars

\* a decimal number: one digit or more
IsNumber(s) == s # <<>> /\ \A i \in 1..Len(s) : IsDigit(s[i])

\* the value of a decimal number, 1000 standing for every value above 999
NumberValue(s) ==
    LET sig == TrimStartSet(s, {48})
    IN  IF Len(sig) > 3 THEN 1000 ELSE IF sig = <<>> THEN 0 ELSE ParseUInt(sig, 10, 999)

\* the SGR numbers the closure recognizes
SgrCodes == {0, 1, 39, 49} \cup (30..37) \cup (40..47) \cup (90..97) \cup (100..107)

\* an SGR parameter that selects a recognized code (an empty one stands for 0)
IsSgrCode(s) == s = <<>> \/ (IsNumber(s) /\ NumberValue(s) \in SgrCodes)

\* C27: unrecognized escape content is never an error: an SGR sequence
\* containing a number outside the recognized codes, a t sequence whose target
\* is neither 0 nor 1, and a sequence ended by any other final byte 0x40..0x7E
\* all leave the cursor unchanged, change colours only through the recognized
\* codes, clear the accumulator, and let the pass continue with the next byte.
C27_UnrecognizedIgnored ==
    [][(/\ pc = "render"
        /\ index < Unwrap(input).size
        /\ y < MetaHeight(Unwrap(meta))
        /\ Len(control) >= 2
        /\ control[1] = 27
        /\ control[2] = 91)
       => LET byte == file[index + 1]
              cmd == Split(SubSeq(control, 3, Len(control)), 59)
              continues == /\ pc' = "render"
                           /\ index' = index + 1
                           /\ x' = x
                           /\ y' = y
                           /\ calls' = calls
                           /\ control' = <<>>
          IN  /\ (byte = 109 /\ \A i \in 1..Len(cmd) : cmd[i] = <<>> \/ IsNumber(cmd[i]))
                    => /\ continues
                       /\ colour' = SgrParams(colour, colours, SelectSeq(cmd, IsSgrCode)).colour
              /\ (/\ byte = 116
                  /\ Len(cmd) = 4
                  /\ \A i \in 1..4 : IsNumber(cmd[i])
                  /\ cmd[1] \notin {<<48>>, <<49>>})
                    => (continues /\ colour' = colour)
              /\ byte \in (64..126) \ {109, 116, 66, 67}
                    => (continues /\ colour' = colour)]_vars

\* the numbers of the SGR sequence held in the accumulator ctl
SgrNumbers(ctl) ==
    LET cmd == Split(SubSeq(ctl, 3, Len(ctl)), 59)
    IN  [i \in 1..Len(cmd) |-> NumberValue(cmd[i])]

\* the place of the last v in nums, 0 if there is none
LastIndex(nums, v) ==
    IF \E i \in 1..Len(nums) : nums[i] = v
    THEN CHOOSE i \in 1..Len(nums) : nums[i] = v /\ \A j \in (i + 1)..Len(nums) : nums[j] # v
    ELSE 0

\* C28: after any SGR sequence that applies code 0, and before any later code,
\* the colour state equals the initial state (bg = palette[0], fg =
\* palette[15], bright = false); the bright flag is true exactly when a code 1
\* has been applied since the start or the last code 0, and applying code 1
\* does not change the current foreground, so SGR parameters take effect
\* strictly left to right (ESC[33;1m leaves fg = palette[3]).
C28_ResetAndBright ==
    /\ [](pc = "render" /\ index = 0
            => colour = [bg |-> colours[1], fg |-> colours[16], bright |-> FALSE])
    /\ [][(pc = "render" /\ pc' = "render" /\ index' = index + 1) =>
            LET sgr == /\ y < MetaHeight(Unwrap(meta))
                       /\ control # <<>>
                       /\ file[index + 1] = 109
                nums == SgrNumbers(control)
            IN  /\ ~sgr => colour'.bright = colour.bright
                /\ sgr =>
                      /\ (nums # <<>> /\ nums[Len(nums)] = 0)
                            => colour' = [bg |-> colours[1], fg |-> colours[16], bright |-> FALSE]
                      /\ colour'.bright =
                            IF LastIndex(nums, 1) > LastIndex(nums, 0) THEN TRUE
                            ELSE IF LastIndex(nums, 0) > 0 THEN FALSE
                            ELSE colour.bright
                      /\ (\A i \in 1..Len(nums) : nums[i] = 1)
                            => (colour'.fg = colour.fg /\ colour'.bg = colour.bg)
                      /\ nums = <<33, 1>> => colour'.fg = colours[4]]_vars

\* ESC[33;1m followed by a character: bright is set, the foreground is palette[3]
C28_Witness ==
    /\ pc = "done"
    /\ res = OK
    /\ Content = <<27, 91, 51, 51, 59, 49, 109, 65>>
    /\ colour.bright
    /\ calls = <<CallOf(65, <<0, 0>>, CLASSIC_COLOURS[1], CLASSIC_COLOURS[4])>>

\* C29: in every reachable state of read_by_bytes_full the accumulator is
\* either empty or starts with byte 0x1B, and while it is non-empty no byte is
\* passed to the callback: the bytes of an escape sequence (the ESC, its
\* parameters and its final byte) are never emitted as glyphs and never advance
\* x by the printable-byte rule.
C29_AccumulatorStartsWithEsc ==
    /\ [](control = <<>> \/ control[1] = 27)
    /\ [][(pc = "render" /\ index < Unwrap(input).size
              /\ (control # <<>> \/ file[index + 1] = 27)) =>
            /\ calls' = calls
            /\ x' # x => (control # <<>> /\ file[index + 1] = 67)
            /\ y' # y => (control # <<>> /\ file[index + 1] = 66)]_vars

\* a character, then the first bytes of a sequence: one callback, the cursor in
\* column 1, the accumulator holding ESC [ 1 ;
C29_Witness ==
    /\ pc = "render"
    /\ control = <<27, 91, 49, 59>>
    /\ index = 5
    /\ Len(calls) = 1
    /\ x = 1

-----------------------------------------------------------------------------
(* Claims checked under SpecCodec *)

\* C17: for every byte b, to_cp437(to_utf8([b])) == [b]: the table maps the 256
\* bytes to 256 pairwise distinct characters and the inverse map sends each
\* character back to its own byte, 0x00, 0x0A, 0x0D, 0x1A and 0x1B included.
C17_ByteRoundTrip ==
    /\ pc = "utf8" => Len(value) = Len(file)
    /\ pc = "cp437" =>
          /\ res = OK
          /\ out = file
          /\ Cardinality(CP437Chars) = 256
          /\ \A b \in Bytes : UTF8_TO_CP437[to_utf8(<<b>>)[1]] = b
          /\ \A i \in 1..Len(value) : UTF8_TO_CP437[value[i]] = file[i]

C17_Witness ==
    /\ pc = "cp437"
    /\ file = <<26, 0>>
    /\ value = to_utf8(<<26, 0>>)
    /\ out = <<26, 0>>

-----------------------------------------------------------------------------
(* Claims checked under SpecScheme *)

\* C18: ColourScheme::get on CUSTOM(#RRGGBB,...) with exactly 16 hex entries,
\* in any letter case, returns CUSTOM holding the same 16 RGB triples in the
\* same order, and get(name(CUSTOM(c))) == CUSTOM(c); a CUSTOM( string with any
\* other number of entries fails with "Unparseable colour scheme: <name>", and
\* a name that in upper case is neither a preset nor starts with CUSTOM( fails
\* with "Unknown scheme: <name>".
C18_CustomSchemes ==
    /\ pc # "name" =>
          /\ \A p \in CustomPalettes, case \in LetterCases :
                /\ scheme = CustomString(p, 16, case) =>
                      res = [ok |-> TRUE, val |-> CUSTOM(p), msg |-> "", arg |-> <<>>]
                /\ \A n \in EntryCounts \ {16} :
                      scheme = CustomString(p, n, case) =>
                          ~res.ok /\ res.msg = "Unparseable colour scheme" /\ res.arg = scheme
          /\ (/\ ~StartsWith(to_uppercase(scheme), CUSTOM_PREFIX)
              /\ \A i \in 1..Len(PresetNames) : to_uppercase(scheme) # PresetNames[i][2])
                => ~res.ok /\ res.msg = "Unknown scheme" /\ res.arg = scheme
    /\ (pc = "again" /\ res.val.variant = "CUSTOM") =>
          /\ value = CUSTOM_PREFIX \o CodesIn(res.val.custom, 1, 16, "lower") \o <<41>>
          /\ readback = res

C18_Witness ==
    /\ pc = "again"
    /\ scheme = CustomString(STRIPES, 16, "mixed")
    /\ res.ok
    /\ res.val = CUSTOM(STRIPES)
    /\ readback = res

-----------------------------------------------------------------------------
(* Claims checked under SpecRemove *)

IsPrefix(p, q) == Len(p) <= Len(q) /\ SubSeq(q, 1, Len(p)) = p

\* the bytes the record of m takes at the end of a file: 0x1A, the comment
\* block if there is one, and the 128 bytes from SAUCE00 on
RecordLength(m) == 129 + (IF m.notes # <<>> THEN 5 + 64 * Len(m.notes) ELSE 0)

\* C20: remove-meta writes exactly the file's content without its record: for
\* a file in which no record is located the output is byte-identical to the
\* whole input, and for a file with a record the output is the first Meta.size
\* bytes of the input and nothing else.
C20_ContentWithoutRecord ==
    (pc \in {"body", "done"} /\ IsSome(input)) =>
        LET m == Unwrap(input).meta
        IN  IF m = None
            THEN /\ IsPrefix(out, file)
                 /\ pc = "done" => out = file
            ELSE /\ IsPrefix(out, file)
                 /\ Len(out) <= Unwrap(m).size
                 /\ Len(out) <= Len(file) - RecordLength(Unwrap(m))
                 /\ pc = "done" => Len(out) = Unwrap(m).size

\* C21: every conversion is a single bounded pass: read_by_chunks eventually
\* returns for every input file and every value of the recorded size, a size
\* larger than the number of bytes the file holds included.
C21_ReadByChunksReturns == (pc = "body") ~> (pc = "done")

-----------------------------------------------------------------------------
(* Claims checked under SpecTxt *)

\* C22: chunking is unobservable: for every file and every way the reads split
\* the data (4 KiB chunks, short reads, a last chunk that extends past size),
\* read_by_bytes hands the callback exactly the first size bytes of the file,
\* each once and in file order, and never a byte at offset >= size.
C22_ChunkingUnobservable ==
    pc \in {"body", "done"} =>
        /\ index <= Unwrap(input).size
        /\ index <= Len(file)
        /\ calls \o chunk = SubSeq(file, 1, index)
        /\ (pc = "done" /\ res = OK) =>
              /\ Len(calls) = Unwrap(input).size
              /\ calls = SubSeq(file, 1, Unwrap(input).size)

\* a read that returns the content and the record after it, cut down to size
C22_Witness ==
    /\ pc = "done"
    /\ res = OK
    /\ file = HiBody \o write_meta([DefaultMeta EXCEPT !.size = 1]).bytes
    /\ Unwrap(input).size = 1
    /\ calls = <<72>>

\* C23: the plain-text transcoder runs the same interpreter as the renderers:
\* after each byte the cursor (x, y) and the accumulator of to-txt's run equal
\* those of read_by_bytes_full on the same input and grid, cursor-down (B) and
\* cursor-right (C) sequences included.
C23_SameInterpreter ==
    (pc \in {"body", "done"} /\ IsSome(meta)) =>
        LET full == ClosureRun(calls, Unwrap(meta), CLASSIC_COLOURS, ClosureStart(CLASSIC_COLOURS))
        IN  full.status = "ok" =>
                /\ x = full.x
                /\ y = full.y
                /\ control = full.control

-----------------------------------------------------------------------------
(* Claims checked under SpecNotes *)

\* the width the labels of a list of n notes have: the number of decimal
\* digits of the largest index n - 1
LabelWidth(n) == IF n <= 10 THEN 1 ELSE IF n <= 100 THEN 2 ELSE 3

\* the label Notes[i] with i written in width digits
IsNoteLabel(r, i, width) ==
    /\ r.name = "Notes"
    /\ Len(r.label) = width
    /\ \A k \in 1..width : IsDigit(r.label[k])
    /\ ParseUInt(r.label, 10, 999) = i

\* the index of the first note of the list that does not pass, -1 if all do
FirstBadNote(notes) ==
    IF \E i \in 1..Len(notes) : notes[i] \in BadNotes
    THEN (CHOOSE i \in 1..Len(notes) :
              notes[i] \in BadNotes /\ \A k \in 1..(i - 1) : notes[k] \notin BadNotes) - 1
    ELSE -1

\* C30: check_note labels an error for note i as Notes[i] with i zero-padded to
\* the number of decimal digits of the largest index (notes.len() - 1): 1 digit
\* for up to 10 notes, 2 digits for 11..100 notes, 3 digits for 101..255 notes,
\* so all labels of one Meta have the same width; and check_notes rejects more
\* than 255 notes before checking any note.
C30_NoteLabels ==
    LET notes == Unwrap(meta).notes
        n == Len(notes)
    IN  /\ pc = "note" =>
              /\ res.ok <=> notes[index + 1] \notin BadNotes
              /\ ~res.ok => IsNoteLabel(res, index, LabelWidth(n))
        /\ pc = "notes" =>
              IF n > 255
              THEN ~res.ok /\ res.msg = "Too many notes" /\ res.arg = <<n>>
              ELSE /\ res.ok <=> FirstBadNote(notes) < 0
                   /\ ~res.ok => IsNoteLabel(res, FirstBadNote(notes), LabelWidth(n))

\* 100 notes, the last of them too long: the label is Notes[99]
C30_Witness ==
    /\ pc = "notes"
    /\ Len(Unwrap(meta).notes) = 100
    /\ ~res.ok
    /\ res.msg = "is too long"
    /\ res.name = "Notes"
    /\ res.label = <<57, 57>>

====
